---- MODULE Spec2Model ----
(***************************************************************************)
(* ChessMirror WMD: the backend aggregation routes (routes.js) over the    *)
(* Prisma store, the segment classifier and the move quality label, and    *)
(* the part of the client (Home.jsx) that numbers and submits moves, keeps *)
(* the memory of the opponent engine and chooses the opponent's move,      *)
(* starts new games, shows and hides nudges with its timers, counts the    *)
(* hovers of a burst, labels the report and queues moves made before the   *)
(* game id has come.                                                       *)
(*                                                                         *)
(* Every HTTP request is a process.  A handler is cut at its awaits: one   *)
(* action is one store operation together with the synchronous code that   *)
(* runs on its result, so requests of the same user interleave exactly at  *)
(* the points where the Node event loop can switch between them.  On the   *)
(* client time is Date.now() in ms; a timer fires when it is due.          *)
(***************************************************************************)
EXTENDS Integers, Sequences, FiniteSets, Bags, TLC

(* ---- bounds ---- *)
MaxReq == 3
MaxSeqLen == 6
MaxClientMoves == 4
MaxLegal == 3
MaxHovers == 9

\* Math.random() is drawn from the multiples of 1 / RandomSteps in [0, 1).
RandomSteps == 2 * MaxLegal + 2

\* The uids of a session: the one the page is loaded with and the fresh one
\* of a new game.
Uids == {0, 1}

ReqIds == 1..MaxReq
GameIds == {"g1"}
Plies == {1, 2}
ThinkTimes == {1500}
EventTypes == {"hint_used", "hover"}
SeqThinkTimes == {0, 1, 2}

(* ---- arithmetic ---- *)

MathFloor(num, den) == num \div den

\* Math.round(num / den) for den > 0: the nearest integer, halves upwards.
MathRound(num, den) == (2 * num + den) \div (2 * den)

Max(a, b) == IF a >= b THEN a ELSE b

Min(a, b) == IF a <= b THEN a ELSE b

Abs(a) == IF a >= 0 THEN a ELSE -a

(* ---- store rows ---- *)

\* Profile row as created by createMany({ userId }): the column defaults.
ZeroProfile ==
  [moveCount |-> 0, blunderCount |-> 0, avgThinkTimeMs |-> 0,
   hintCount |-> 0, segment |-> "unknown"]

\* util.js computeSegment; blunderCount / moveCount >= 0.15 and <= 0.08 are
\* compared as cross products (moveCount > 0, else the rate is 0).
computeSegment(p) ==
  LET rateGe15 == p.moveCount > 0 /\ 100 * p.blunderCount >= 15 * p.moveCount
      rateLe08 == p.moveCount = 0 \/ 100 * p.blunderCount <= 8 * p.moveCount
  IN  IF p.hintCount >= 5 THEN "learner"
      ELSE IF p.avgThinkTimeMs <= 2500 /\ rateGe15 THEN "impulsive"
      ELSE IF p.avgThinkTimeMs >= 7000 /\ rateLe08 THEN "careful"
      ELSE "unknown"

\* moveQuality.js labelMoveQuality: canCaptureTo is whether chess.js lists a
\* legal capture landing on the moved piece's square.
labelMoveQuality(canCaptureTo) == IF canCaptureTo THEN "blunder" ELSE "good"

\* moveQuality.js 16: legalMoves.some(m => m.to === to && m.flags.includes("c")).
\* A verbose move of chess.js is kept as its destination and the set of the
\* letters of its flags string.
CanCaptureAnywhere(legalMoves, to) == \E m \in legalMoves : "c" \in m.flags

CanCaptureTo(legalMoves, to) == \E m \in legalMoves : m.to = to /\ "c" \in m.flags

\* The move chess.move() did not make.
NoMove == [null |-> TRUE]

\* moveQuality.js labelMoveQuality(chess, lastMove), chess being given by the
\* verbose legal moves of the side to move.
labelMoveQualityOn(legalMoves, lastMove) ==
  IF lastMove = NoMove THEN "good"
  ELSE labelMoveQuality(CanCaptureTo(legalMoves, lastMove.to))

\* routes.js 244-253: the values the move handler writes, computed from the
\* profile snapshot prev it read at the start of the request.
MoveStats(prev, quality, thinkTimeMs) ==
  LET moveCount == prev.moveCount + 1
  IN  [moveCount |-> moveCount,
       blunderCount |-> prev.blunderCount + (IF quality = "blunder" THEN 1 ELSE 0),
       avgThinkTimeMs |->
         MathRound(prev.avgThinkTimeMs * prev.moveCount + thinkTimeMs, moveCount)]

\* routes.js 121: the hint counter the event handler writes.
HintNext(prev) == prev.hintCount + 1

(* ---- the segment classifier (behaviorInsight.js) ---- *)

\* A stats object as GET /profile/:uid builds it (routes.js 322-331): moves
\* and moveCount are the same number, avgThinkTime is seconds rounded to one
\* decimal and is kept here in tenths of a second, blunderRate is a whole
\* percentage.
Stats(moveCount, avgThinkTime, blunderRate, hoverCount) ==
  [moves |-> moveCount, moveCount |-> moveCount, avgThinkTime |-> avgThinkTime,
   blunderRate |-> blunderRate, hoverCount |-> hoverCount]

\* stats?.name ?? otherwise: a field the object does not have is undefined.
Field(stats, name, otherwise) ==
  IF name \in DOMAIN stats THEN stats[name] ELSE otherwise

getBehaviorInsightImpulsiveFirst(stats) ==
  LET moveCount == Field(stats, "moves", Field(stats, "moveCount", 0))
      avgThinkTime == Field(stats, "avgThinkTime", 0)
      blunderRate == Field(stats, "blunderRate", 0)
      hoverCount == Field(stats, "hoverCount", 0)
  IN  [label |->
        IF moveCount < 6 THEN "Warming up"
        ELSE IF avgThinkTime <= 22 /\ blunderRate >= 25 THEN "Impulsive"
        ELSE IF blunderRate >= 35 THEN "Unstable"
        ELSE IF avgThinkTime >= 60 /\ blunderRate <= 20 THEN "Reflective"
        ELSE IF avgThinkTime >= 40 /\ hoverCount >= 4 * moveCount THEN "Hesitant"
        ELSE IF hoverCount >= 5 * moveCount THEN "Explorer"
        ELSE "Balanced"]

getBehaviorInsightWarmUpBelowFive(stats) ==
  LET moveCount == Field(stats, "moves", Field(stats, "moveCount", 0))
      avgThinkTime == Field(stats, "avgThinkTime", 0)
      blunderRate == Field(stats, "blunderRate", 0)
      hoverCount == Field(stats, "hoverCount", 0)
  IN  [label |->
        IF moveCount < 5 THEN "Warming up"
        ELSE IF blunderRate >= 35 THEN "Unstable"
        ELSE IF avgThinkTime <= 22 /\ blunderRate >= 25 THEN "Impulsive"
        ELSE IF avgThinkTime >= 60 /\ blunderRate <= 20 THEN "Reflective"
        ELSE IF avgThinkTime >= 40 /\ hoverCount >= 4 * moveCount THEN "Hesitant"
        ELSE IF hoverCount >= 5 * moveCount THEN "Explorer"
        ELSE "Balanced"]

\* behaviorInsight.js getBehaviorInsight.  hoversPerMove = hoverCount /
\* moveCount is only compared once moveCount >= 6, so hoversPerMove >= 4.0 is
\* hoverCount >= 4 * moveCount.  The numbers are finite here, which makes the
\* Number.isFinite guards true.  The text of the answer repeats the numbers
\* and is left out.
getBehaviorInsight(stats) ==
  LET moveCount == Field(stats, "moves", Field(stats, "moveCount", 0))
      avgThinkTime == Field(stats, "avgThinkTime", 0)
      blunderRate == Field(stats, "blunderRate", 0)
      hoverCount == Field(stats, "hoverCount", 0)
  IN  [label |->
        IF moveCount < 6 THEN "Warming up"
        ELSE IF blunderRate >= 35 THEN "Unstable"
        ELSE IF avgThinkTime <= 22 /\ blunderRate >= 25 THEN "Impulsive"
        ELSE IF avgThinkTime >= 60 /\ blunderRate <= 20 THEN "Reflective"
        ELSE IF avgThinkTime >= 40 /\ hoverCount >= 4 * moveCount THEN "Hesitant"
        ELSE IF hoverCount >= 5 * moveCount THEN "Explorer"
        ELSE "Balanced"]

VARIABLES
  moveKeyUnique,  \* does the store reject a second Move row with the same (gameId, ply)
  hasUser,        \* User row of the uid exists
  hasProfile,     \* Profile row of the user exists
  profile,        \* the Profile row (column defaults while absent)
  games,          \* ids of the Game rows
  moves,          \* bag of Move rows
  events,         \* number of Event rows per type
  sessions,       \* ids of the Session rows
  reqs,           \* the requests: position in the handler, locals, response
  decisions,      \* the AdminDecision rows of the user, in the order of their creation
  thinkLog,       \* think times aggregated one after another (sequential runs)
  chess,          \* client: the board object held in React state
  clientGame,     \* client: gameId state
  botThinking,    \* client: an opponent reply is pending
  afterPlayer,    \* client: board and gameId the pending opponent reply works on
  pending,        \* client: pendingMovesRef, moves committed without a gameId
  saving,         \* client: committed moves whose continuation has not run yet
  sent,           \* client: submitMove payloads, in the order of the calls
  recentBlunders, \* client: recentBlundersRef.current
  recentFastMoves,\* client: recentFastMovesRef.current
  streaks,        \* what the player's committed moves were: the last one, any two in a row
  now,            \* client: Date.now(), in ms
  uid,            \* client: the uid state, counted in new games started
  reportLocked,   \* client: the final report locks the board
  botTimer,       \* client: botTimerRef, when the armed timer is due
  nudge,          \* client: the nudge state (NoNudge for null)
  lastNudgeAt,    \* client: lastNudgeAtRef.current
  nudgeHideTimer, \* client: nudgeHideTimerRef, when the soft hide is due
  nudgeMaxTimer,  \* client: nudgeMaxTimerRef, when the hard hide is due
  nudgeEnabled,   \* client: nudgeEnabled state
  profileStats,   \* client: profileStats state (Null before the first answer)
  refreshing,     \* client: uids whose getProfile call is not answered yet
  interventionsDue, \* client: the getInterventions call of this uid is not answered yet
  random,         \* what Math.random() last returned to maybeShowNudge
  shownLog,       \* when the nudges shown so far were shown
  hoverBurstRef,  \* client: hoverBurstRef.current, count and windowStart
  hoverLog,       \* when the squares were hovered since the last move of the player
  botRunning,     \* client: bot callbacks waiting for the answer to their submitMove
  strayTimers,    \* client: armed bot timers that botTimerRef no longer holds
  callArgs,       \* the arguments of a function applied on its own
  callResult      \* what that function returned (NoResult before the call)

backendVars == <<moveKeyUnique, hasUser, hasProfile, profile, games, moves,
                 events, sessions, reqs, decisions>>

sessionVars == <<now, uid, reportLocked, botTimer, nudge, lastNudgeAt,
                 nudgeHideTimer, nudgeMaxTimer, nudgeEnabled, profileStats,
                 refreshing, interventionsDue, random, shownLog, hoverBurstRef,
                 hoverLog, botRunning, strayTimers>>

clientVars == <<chess, clientGame, botThinking, afterPlayer, pending, saving,
               sent, recentBlunders, recentFastMoves, streaks, sessionVars>>

callVars == <<callArgs, callResult>>

vars == <<moveKeyUnique, hasUser, hasProfile, profile, games, moves, events,
          sessions, reqs, decisions, thinkLog, chess, clientGame, botThinking,
          afterPlayer, pending, saving, sent, recentBlunders,
          recentFastMoves, streaks, now, uid, reportLocked, botTimer, nudge,
          lastNudgeAt, nudgeHideTimer, nudgeMaxTimer, nudgeEnabled,
          profileStats, refreshing, interventionsDue, random, shownLog,
          hoverBurstRef, hoverLog, botRunning, strayTimers, callArgs,
          callResult>>

(* ---- requests ---- *)

NoVal == "-"

\* {}: a JSON object without keys.
NoFlags == [k \in {} |-> TRUE]

IdleReq ==
  [pc |-> "idle", kind |-> NoVal, gameId |-> NoVal, ply |-> 0, isBot |-> FALSE,
   thinkTimeMs |-> 0, quality |-> NoVal, prev |-> ZeroProfile,
   updated |-> ZeroProfile, status |-> 0, deduped |-> FALSE,
   resQuality |-> NoVal, segment |-> NoVal, legal |-> TRUE,
   interventions |-> NoFlags]

\* res.json / res.status(...).json: the handler returns and its locals are
\* gone; what stays is the answer and, for an accepted move, the submission
\* (gameId, ply, isBot) it answers.
Respond(r, status, resQuality, deduped) ==
  [IdleReq EXCEPT !.pc = "done", !.kind = r.kind, !.status = status,
                  !.resQuality = resQuality, !.deduped = deduped,
                  !.gameId = IF status = 200 THEN r.gameId ELSE NoVal,
                  !.ply = IF status = 200 THEN r.ply ELSE 0,
                  !.isBot = IF status = 200 THEN r.isBot ELSE FALSE]

\* Requests are taken in the order of their ids.
CanStart(i) ==
  /\ reqs[i].pc = "idle"
  /\ \A j \in ReqIds : j < i => reqs[j].pc # "idle"

MoveRow(r) ==
  [gameId |-> r.gameId, ply |-> r.ply, isBot |-> r.isBot,
   thinkTimeMs |-> Max(0, Min(600000, r.thinkTimeMs)), quality |-> r.quality]

\* Move rows already stored under the key (gameId, ply).
RowsWithKey(gameId, ply) ==
  {m \in BagToSet(moves) : m.gameId = gameId /\ m.ply = ply}

(* ---- initial state: an empty database, a fresh client ---- *)

\* chess.js objects, as far as move numbering goes: pos is the number of
\* half-moves that led to the position (a FEN carries it), history the
\* length of history(), the moves made on this very object.
NewChess == [pos |-> 0, history |-> 0]

\* new Chess(fen): the position of the FEN with an empty history.
ChessFromFen(c) == [pos |-> c.pos, history |-> 0]

\* chess.move(...) of a legal move.
ChessMove(c) == [pos |-> c.pos + 1, history |-> c.history + 1]

\* The schema is either one: the migration creates Move_gameId_ply_idx as a
\* plain index (moveKeyUnique = FALSE), the P2002 branch of POST /game/move is
\* written for a unique one (TRUE).  It never changes afterwards.
BackendInit ==
  /\ moveKeyUnique \in BOOLEAN
  /\ hasUser = FALSE
  /\ hasProfile = FALSE
  /\ profile = ZeroProfile
  /\ games = {}
  /\ moves = EmptyBag
  /\ events = [t \in EventTypes |-> 0]
  /\ sessions = {}
  /\ reqs = [i \in ReqIds |-> IdleReq]
  /\ decisions = <<>>

\* null: what chooseBotMove returns without a legal move, profileStats before
\* the first answer.
Null == [null |-> TRUE]

(* ---- client: clock, timers and nudge constants (Home.jsx 989-994) ---- *)

NUDGE_COOLDOWN_MS == 20000
NUDGE_MIN_VISIBLE_MS == 4500
NUDGE_MAX_VISIBLE_MS == 10000
NUDGE_AFTER_MOVE_GRACE_MS == 900
\* NUDGE_SHOW_PROB = 0.45, in hundredths.
NUDGE_SHOW_PROB == 45

\* Date.now() when the page loads: ms since 1970, far more than a cooldown
\* after the 0 that lastNudgeAtRef starts with.
LoadedAt == 100000

\* A timer ref holding null.
NoTimer == -1

\* The nudge state holding null.
NoNudge == [visible |-> FALSE]

\* Math.random() not called yet.
NoRandom == -1

\* The state of Home after the first render and its effects: no nudge, no
\* timer, nudges enabled, getProfile and getInterventions on their way.
SessionInit ==
  /\ now = LoadedAt
  /\ uid = 0
  /\ reportLocked = FALSE
  /\ botTimer = NoTimer
  /\ nudge = NoNudge
  /\ lastNudgeAt = 0
  /\ nudgeHideTimer = NoTimer
  /\ nudgeMaxTimer = NoTimer
  /\ nudgeEnabled = TRUE
  /\ profileStats = Null
  /\ refreshing = {0}
  /\ interventionsDue = TRUE
  /\ random = NoRandom
  /\ shownLog = <<>>
  /\ hoverBurstRef = [count |-> 0, windowStart |-> 0]
  /\ hoverLog = <<>>
  /\ botRunning = <<>>
  /\ strayTimers = {}

\* No move committed yet.
NoStreaks ==
  [lastFast |-> FALSE, lastBlunder |-> FALSE, twoFast |-> FALSE, twoBlunders |-> FALSE]

ClientInit ==
  /\ chess = NewChess
  /\ clientGame = NoVal
  /\ botThinking = FALSE
  /\ afterPlayer = [board |-> NewChess, gid |-> NoVal, uid |-> 0]
  /\ pending = <<>>
  /\ saving = <<>>
  /\ sent = <<>>
  /\ recentBlunders = 0
  /\ recentFastMoves = 0
  /\ streaks = NoStreaks
  /\ SessionInit

\* The result of a call that has not returned.
NoResult == [returned |-> FALSE]

\* No function is being applied on its own.
NoCall ==
  /\ callArgs = NoVal
  /\ callResult = NoResult

Init ==
  /\ BackendInit
  /\ ClientInit
  /\ thinkLog = <<>>
  /\ NoCall

(* ---- routes.js helpers ---- *)

\* getOrCreateUser (routes.js 19-59): one transaction that creates the User
\* and Profile rows when missing; the caller gets the profile as read by the
\* final findUnique.
getOrCreateUser ==
  /\ hasUser' = TRUE
  /\ hasProfile' = TRUE
  /\ profile' = profile

\* A validation that lets every move pass.
IllegalMoveNever(legal) == FALSE

\* chess.move(...) on new Chess(fenBefore) returns nothing for a move that
\* is not legal in fenBefore (routes.js 192-204).
IllegalMove(legal) == ~legal

\* POST /game/move up to move.create (routes.js 167-209): safeUserByUid loads
\* the user with its profile (404 for an unknown uid; ensureProfile creates a
\* missing row), game.upsert makes sure the Game row exists, chess.js
\* validates the move (legal, else 400), and a player move gets its quality
\* label while a bot move gets null.  The Game table is read by nobody else,
\* so the two store calls are taken as one step.
MoveBegin(i, gameId, ply, isBot, thinkTimeMs, legal, canCaptureTo) ==
  /\ CanStart(i)
  /\ LET r == [reqs[i] EXCEPT !.kind = "move", !.gameId = gameId, !.ply = ply,
                              !.isBot = isBot, !.thinkTimeMs = thinkTimeMs,
                              !.prev = profile, !.legal = legal]
     IN  IF ~hasUser
           THEN /\ reqs' = [reqs EXCEPT ![i] = Respond(r, 404, NoVal, FALSE)]
                /\ UNCHANGED <<hasProfile, games>>
           ELSE /\ hasProfile' = TRUE
                /\ games' = games \cup {gameId}
                /\ reqs' = [reqs EXCEPT ![i] =
                     IF IllegalMove(legal)
                       THEN Respond(r, 400, NoVal, FALSE)
                       ELSE [r EXCEPT !.pc = "create",
                                      !.quality =
                                        IF isBot THEN "null"
                                        ELSE labelMoveQuality(canCaptureTo)]]
  /\ UNCHANGED <<moveKeyUnique, hasUser, profile, moves, events, sessions,
                 thinkLog>>
  /\ UNCHANGED <<decisions, clientVars>>
  /\ UNCHANGED callVars

\* The store's answer to move.create: P2002 when a unique constraint on
\* (gameId, ply) exists and a row with the key is already there.
P2002(gameId, ply) == moveKeyUnique /\ RowsWithKey(gameId, ply) # {}

AfterCreateNoBotCheck(r) == [r EXCEPT !.pc = "updateProfile"]

\* routes.js 236-239: a stored bot move is answered at once and never reaches
\* the profile; a player move goes on to the aggregation.
AfterCreate(r) ==
  IF r.isBot THEN Respond(r, 200, "null", FALSE)
  ELSE [r EXCEPT !.pc = "updateProfile"]

\* POST /game/move (routes.js 211-239): move.create; on P2002 the deduped
\* answer, otherwise the row is stored.
MoveCreate(i) ==
  /\ reqs[i].kind = "move"
  /\ reqs[i].pc = "create"
  /\ LET r == reqs[i]
     IN  IF P2002(r.gameId, r.ply)
           THEN /\ moves' = moves
                /\ reqs' = [reqs EXCEPT ![i] =
                     Respond(r, 200, IF r.isBot THEN "null" ELSE "ok", TRUE)]
           ELSE /\ moves' = moves (+) SetToBag({MoveRow(r)})
                /\ reqs' = [reqs EXCEPT ![i] = AfterCreate(r)]
  /\ UNCHANGED <<moveKeyUnique, hasUser, hasProfile, profile, games, events,
                 sessions, thinkLog>>
  /\ UNCHANGED <<decisions, clientVars>>
  /\ UNCHANGED callVars

MoveUpdateRowIncrBlunder(cur, prev, quality, thinkTimeMs) ==
  LET s == MoveStats(prev, quality, thinkTimeMs)
  IN  [cur EXCEPT !.moveCount = s.moveCount,
                  !.blunderCount = cur.blunderCount + (s.blunderCount - prev.blunderCount),
                  !.avgThinkTimeMs = s.avgThinkTimeMs]

\* routes.js 255-258: profile.update({ data: { moveCount, blunderCount,
\* avgThinkTimeMs } }) sets these three columns of the current row cur to the
\* values computed from the snapshot prev and leaves the other columns.
MoveUpdateRow(cur, prev, quality, thinkTimeMs) ==
  LET s == MoveStats(prev, quality, thinkTimeMs)
  IN  [cur EXCEPT !.moveCount = s.moveCount,
                  !.blunderCount = s.blunderCount,
                  !.avgThinkTimeMs = s.avgThinkTimeMs]

\* POST /game/move (routes.js 241-258): the player move's profile.update,
\* which returns the row.
MoveUpdateProfile(i) ==
  /\ reqs[i].kind = "move"
  /\ reqs[i].pc = "updateProfile"
  /\ LET r == reqs[i]
         row == MoveUpdateRow(profile, r.prev, r.quality, r.thinkTimeMs)
     IN  /\ profile' = row
         /\ reqs' = [reqs EXCEPT ![i] =
              [r EXCEPT !.pc = "updateSegment", !.updated = row]]
  /\ UNCHANGED <<moveKeyUnique, hasUser, hasProfile, games, moves, events,
                 sessions, thinkLog>>
  /\ UNCHANGED <<decisions, clientVars>>
  /\ UNCHANGED callVars

\* POST /game/move (routes.js 260-265): the segment of the returned row is
\* stored, the quality is answered.
MoveUpdateSegment(i) ==
  /\ reqs[i].kind = "move"
  /\ reqs[i].pc = "updateSegment"
  /\ profile' = [profile EXCEPT !.segment = computeSegment(reqs[i].updated)]
  /\ reqs' = [reqs EXCEPT ![i] = Respond(reqs[i], 200, reqs[i].quality, FALSE)]
  /\ UNCHANGED <<moveKeyUnique, hasUser, hasProfile, games, moves, events,
                 sessions, thinkLog>>
  /\ UNCHANGED <<decisions, clientVars>>
  /\ UNCHANGED callVars

\* POST /track/event up to the hint branch (routes.js 97-121, 134):
\* getOrCreateUser, session upsert and event.create; only a hint_used event
\* goes on to the profile, with the profile getOrCreateUser returned.
TrackEvent(i, type, sessionId) ==
  /\ CanStart(i)
  /\ getOrCreateUser
  /\ sessions' = sessions \cup {sessionId}
  /\ events' = [events EXCEPT ![type] = @ + 1]
  /\ LET r == [reqs[i] EXCEPT !.kind = type, !.prev = profile]
     IN  reqs' = [reqs EXCEPT ![i] =
           IF type = "hint_used"
             THEN [r EXCEPT !.pc = "updateHint"]
             ELSE Respond(r, 200, NoVal, FALSE)]
  /\ UNCHANGED <<moveKeyUnique, games, moves, thinkLog>>
  /\ UNCHANGED <<decisions, clientVars>>
  /\ UNCHANGED callVars

\* POST /track/event (routes.js 123-126): profile.update writes hintCount.
EventUpdateHint(i) ==
  /\ reqs[i].kind = "hint_used"
  /\ reqs[i].pc = "updateHint"
  /\ LET row == [profile EXCEPT !.hintCount = HintNext(reqs[i].prev)]
     IN  /\ profile' = row
         /\ reqs' = [reqs EXCEPT ![i] =
              [reqs[i] EXCEPT !.pc = "updateSegment", !.updated = row]]
  /\ UNCHANGED <<moveKeyUnique, hasUser, hasProfile, games, moves, events,
                 sessions, thinkLog>>
  /\ UNCHANGED <<decisions, clientVars>>
  /\ UNCHANGED callVars

\* POST /track/event (routes.js 128-134).
EventUpdateSegment(i) ==
  /\ reqs[i].kind = "hint_used"
  /\ reqs[i].pc = "updateSegment"
  /\ profile' = [profile EXCEPT !.segment = computeSegment(reqs[i].updated)]
  /\ reqs' = [reqs EXCEPT ![i] = Respond(reqs[i], 200, NoVal, FALSE)]
  /\ UNCHANGED <<moveKeyUnique, hasUser, hasProfile, games, moves, events,
                 sessions, thinkLog>>
  /\ UNCHANGED <<decisions, clientVars>>
  /\ UNCHANGED callVars

\* POST /game/start (routes.js 142-162): getOrCreateUser, then game.create
\* under a new id, which is the answer.
GameStart(i, gameId) ==
  /\ CanStart(i)
  /\ gameId \notin games
  /\ getOrCreateUser
  /\ games' = games \cup {gameId}
  /\ reqs' = [reqs EXCEPT ![i] =
       Respond([reqs[i] EXCEPT !.kind = "start", !.gameId = gameId],
               200, NoVal, FALSE)]
  /\ UNCHANGED <<moveKeyUnique, moves, events, sessions, thinkLog>>
  /\ UNCHANGED <<decisions, clientVars>>
  /\ UNCHANGED callVars

\* GET /profile/:uid, first read (routes.js 274-299): the user with its
\* profile; an unknown uid is answered with segment "UNKNOWN" and nothing is
\* written, a missing Profile row is created by ensureProfile.
ProfileBegin(i) ==
  /\ CanStart(i)
  /\ LET r == [reqs[i] EXCEPT !.kind = "profile", !.prev = profile]
     IN  IF ~hasUser
           THEN /\ reqs' = [reqs EXCEPT ![i] =
                     [Respond(r, 200, NoVal, FALSE) EXCEPT !.segment = "UNKNOWN"]]
                /\ UNCHANGED hasProfile
           ELSE /\ hasProfile' = TRUE
                /\ reqs' = [reqs EXCEPT ![i] = [r EXCEPT !.pc = "readEvents"]]
  /\ UNCHANGED <<moveKeyUnique, hasUser, profile, games, moves, events, sessions,
                 thinkLog>>
  /\ UNCHANGED <<decisions, clientVars>>
  /\ UNCHANGED callVars

\* routes.js 301-331: the stats object of the profile snapshot and of the
\* hover events among the 500 newest events.
ProfileStats(prev, hoverCount) ==
  Stats(prev.moveCount,
        MathRound(prev.avgThinkTimeMs, 100),
        IF prev.moveCount > 0 THEN MathRound(100 * prev.blunderCount, prev.moveCount) ELSE 0,
        hoverCount)

\* GET /profile/:uid, second read (routes.js 304-334): the events are read,
\* the stats are classified; the answer is sent at once when the snapshot
\* already carries the label.
ProfileReadEvents(i) ==
  /\ reqs[i].kind = "profile" /\ reqs[i].pc = "readEvents"
  /\ LET segment == getBehaviorInsight(
                      ProfileStats(reqs[i].prev, Min(500, events["hover"]))).label
     IN  reqs' = [reqs EXCEPT ![i] =
           IF reqs[i].prev.segment # segment
             THEN [reqs[i] EXCEPT !.pc = "writeSegment", !.segment = segment]
             ELSE [Respond(reqs[i], 200, NoVal, FALSE) EXCEPT !.segment = segment]]
  /\ UNCHANGED <<moveKeyUnique, hasUser, hasProfile, profile, games, moves,
                 events, sessions, thinkLog>>
  /\ UNCHANGED <<decisions, clientVars>>
  /\ UNCHANGED callVars

\* GET /profile/:uid, profile.update({ segment }) and the answer (routes.js
\* 335-342).
ProfileWriteSegment(i) ==
  /\ reqs[i].kind = "profile" /\ reqs[i].pc = "writeSegment"
  /\ profile' = [profile EXCEPT !.segment = reqs[i].segment]
  /\ reqs' = [reqs EXCEPT ![i] =
       [Respond(reqs[i], 200, NoVal, FALSE) EXCEPT !.segment = reqs[i].segment]]
  /\ UNCHANGED <<moveKeyUnique, hasUser, hasProfile, games, moves, events,
                 sessions, thinkLog>>
  /\ UNCHANGED <<decisions, clientVars>>
  /\ UNCHANGED callVars

Next ==
  \/ \E i \in ReqIds, gameId \in GameIds, ply \in Plies, isBot \in BOOLEAN,
        thinkTimeMs \in ThinkTimes, legal \in BOOLEAN, canCaptureTo \in BOOLEAN :
       MoveBegin(i, gameId, ply, isBot, thinkTimeMs, legal, canCaptureTo)
  \/ \E i \in ReqIds : MoveCreate(i)
  \/ \E i \in ReqIds : MoveUpdateProfile(i)
  \/ \E i \in ReqIds : MoveUpdateSegment(i)
  \/ \E i \in ReqIds, type \in EventTypes : TrackEvent(i, type, "s1")
  \/ \E i \in ReqIds : EventUpdateHint(i)
  \/ \E i \in ReqIds : EventUpdateSegment(i)
  \/ \E i \in ReqIds, gameId \in GameIds : GameStart(i, gameId)
  \/ \E i \in ReqIds : ProfileBegin(i)
  \/ \E i \in ReqIds : ProfileReadEvents(i)
  \/ \E i \in ReqIds : ProfileWriteSegment(i)

Spec == Init /\ [][Next]_vars

(* ---- what the answers and the store say about the requests ---- *)

AllDone == \A i \in ReqIds : reqs[i].pc = "done"

\* Requests answered as a successful player move.
PlayerAnswers ==
  {i \in ReqIds : /\ reqs[i].pc = "done"
                  /\ reqs[i].kind = "move"
                  /\ reqs[i].status = 200
                  /\ ~reqs[i].isBot}

\* Player moves that were stored and aggregated (not answered as duplicates).
PlayerAccepted == {i \in PlayerAnswers : ~reqs[i].deduped}

\* Number of Move rows stored under the key (gameId, ply).
KeyCount(gameId, ply) ==
  BagCardinality([m \in RowsWithKey(gameId, ply) |-> CopiesIn(m, moves)])

SameKey(i, j) == reqs[i].gameId = reqs[j].gameId /\ reqs[i].ply = reqs[j].ply

\* Keys (gameId, ply) under which a player move is stored.
PlayerKeys == {<<m.gameId, m.ply>> : m \in {x \in BagToSet(moves) : ~x.isBot}}

\* A step of request i that belongs to a bot move.
BotStep(i) ==
  /\ reqs'[i] # reqs[i]
  /\ reqs'[i].kind = "move"
  /\ reqs[i].isBot \/ reqs'[i].isBot

\* The profile.update step of player move i.
PlayerUpdateStep(i) ==
  /\ reqs[i].kind = "move"
  /\ reqs[i].pc = "updateProfile"
  /\ reqs'[i].pc = "updateSegment"

(* ---- claims ---- *)

\* C1: no step of a POST /game/move request with isBot = true changes the
\* user's profile (moveCount, blunderCount, avgThinkTimeMs, hintCount,
\* segment all stay as they are).
C1_BotMoveKeepsProfile ==
  [][\A i \in ReqIds : BotStep(i) => profile' = profile]_vars

\* C1 witness: a bot move was stored and answered while the profile already
\* held aggregated player moves.
C1_Witness ==
  \E i \in ReqIds :
    /\ reqs[i].pc = "done" /\ reqs[i].kind = "move" /\ reqs[i].isBot
    /\ reqs[i].status = 200 /\ ~reqs[i].deduped
    /\ profile.moveCount >= 1

\* C2 (as claimed): every key (gameId, ply) contributes at most one increment
\* of moveCount, so moveCount never exceeds the number of keys under which a
\* player move was accepted.
C2_AtMostOncePerKey == profile.moveCount <= Cardinality(PlayerKeys)

\* C3 (as claimed): of two successful answers to player moves with the same
\* (gameId, ply), one carries deduped = true and both carry the same quality,
\* the one computed for the first submission.
C3_DuplicateReturnsFirstResult ==
  \A i, j \in PlayerAnswers :
    (i # j /\ SameKey(i, j)) =>
      /\ reqs[i].deduped \/ reqs[j].deduped
      /\ reqs[i].resQuality = reqs[j].resQuality

\* C5 (as claimed): once all requests are answered, if the accepted player
\* moves have pairwise different keys then moveCount is their number and
\* blunderCount the number of them labelled blunder.
C5_NoLostUpdate ==
  (AllDone /\ \A i, j \in PlayerAccepted : i # j => ~SameKey(i, j)) =>
    /\ profile.moveCount = Cardinality(PlayerAccepted)
    /\ profile.blunderCount =
         Cardinality({i \in PlayerAccepted : reqs[i].resQuality = "blunder"})

\* C6 (as claimed): no step stores a smaller moveCount, blunderCount or
\* hintCount than the one stored before it.
C6_CountersMonotone ==
  [][/\ profile'.moveCount >= profile.moveCount
     /\ profile'.blunderCount >= profile.blunderCount
     /\ profile'.hintCount >= profile.hintCount]_vars

\* C7: in every reachable state of the store 0 <= blunderCount <= moveCount.
C7_BlunderAtMostMoves ==
  /\ 0 <= profile.blunderCount
  /\ profile.blunderCount <= profile.moveCount

\* C7 witness: blunders and good moves were both aggregated, by more than one
\* request.
C7_Witness ==
  /\ profile.blunderCount >= 1
  /\ profile.moveCount >= 2
  /\ profile.moveCount > profile.blunderCount

\* C8 (as claimed): the profile.update of an accepted player move whose key
\* is stored once (no duplicate) takes the stored profile to moveCount + 1, blunderCount + 1 for a blunder, the
\* rounded incremental mean, and leaves hintCount.
C8_ExactUpdate ==
  [][\A i \in ReqIds :
       (PlayerUpdateStep(i) /\ KeyCount(reqs[i].gameId, reqs[i].ply) = 1) =>
       /\ profile'.moveCount = profile.moveCount + 1
       /\ profile'.blunderCount = profile.blunderCount +
            (IF reqs[i].quality = "blunder" THEN 1 ELSE 0)
       /\ profile'.avgThinkTimeMs =
            MathRound(profile.avgThinkTimeMs * profile.moveCount
                        + reqs[i].thinkTimeMs, profile.moveCount + 1)
       /\ profile'.hintCount = profile.hintCount]_vars

\* C10 (as claimed): once all requests are answered, hintCount is the number
\* of hint_used events received.
C10_HintCountIsNumberOfHints ==
  AllDone => profile.hintCount = events["hint_used"]

(* ---- requests handled one after another ---- *)

RECURSIVE SumSeq(_)
SumSeq(q) == IF q = <<>> THEN 0 ELSE q[1] + SumSeq(Tail(q))

\* A user created by POST /game/start, no move yet.
InitSeq ==
  /\ moveKeyUnique \in BOOLEAN
  /\ hasUser = TRUE
  /\ hasProfile = TRUE
  /\ profile = ZeroProfile
  /\ games \in {{gameId} : gameId \in GameIds}
  /\ moves = EmptyBag
  /\ events = [t \in EventTypes |-> 0]
  /\ sessions = {}
  /\ reqs = [i \in ReqIds |-> IdleReq]
  /\ decisions = <<>>
  /\ ClientInit
  /\ thinkLog = <<>>
  /\ NoCall

\* POST /game/move (routes.js 165-270) for a legal player move, run from
\* request to answer with no other request in between.
SeqPlayerMove(gameId, thinkTimeMs, canCaptureTo) ==
  /\ Len(thinkLog) < MaxSeqLen
  /\ hasUser
  /\ LET quality == labelMoveQuality(canCaptureTo)
         r == [IdleReq EXCEPT !.kind = "move", !.gameId = gameId,
                              !.ply = Len(thinkLog) + 1,
                              !.thinkTimeMs = thinkTimeMs, !.quality = quality]
         row == MoveUpdateRow(profile, profile, quality, thinkTimeMs)
     IN  /\ hasProfile' = TRUE
         /\ games' = games \cup {gameId}
         /\ moves' = moves (+) SetToBag({MoveRow(r)})
         /\ profile' = [row EXCEPT !.segment = computeSegment(row)]
         /\ thinkLog' = Append(thinkLog, thinkTimeMs)
  /\ UNCHANGED <<moveKeyUnique, hasUser, events, sessions, reqs, decisions>>
  /\ UNCHANGED clientVars
  /\ UNCHANGED callVars

NextSeq ==
  \E gameId \in GameIds, thinkTimeMs \in SeqThinkTimes, canCaptureTo \in BOOLEAN :
    SeqPlayerMove(gameId, thinkTimeMs, canCaptureTo)

SpecSeq == InitSeq /\ [][NextSeq]_vars

(* ---- client: the opponent engine (Home.jsx) ---- *)

chooseBotModeBaitFirst(blunders, fastMoves) ==
  IF fastMoves >= 2 THEN "bait"
  ELSE IF blunders >= 2 THEN "trap"
  ELSE "baseline"

\* chooseBotMode (Home.jsx 1404-1408) on the two counters of the refs.
chooseBotMode(blunders, fastMoves) ==
  IF blunders >= 2 THEN "trap"
  ELSE IF fastMoves >= 2 THEN "bait"
  ELSE "baseline"

RECURSIVE SumWeights(_, _)
\* The weights of the first k items added up.
SumWeights(items, k) == IF k = 0 THEN 0 ELSE SumWeights(items, k - 1) + items[k].weight

\* pickWeightedRandom (Home.jsx 971-979).  Math.random() is u / RandomSteps
\* with u in 0..RandomSteps-1; r and the weights are counted in units of
\* 1 / RandomSteps.  The loop returns the first item at which the remainder
\* is <= 0, after the loop the last item (null for no items).
pickWeightedRandom(items, u) ==
  LET total == SumWeights(items, Len(items))
      r == u * total
      hit == {k \in 1..Len(items) : r - RandomSteps * SumWeights(items, k) <= 0}
  IN  IF hit # {} THEN items[CHOOSE k \in hit : \A j \in hit : k <= j].item
      ELSE IF Len(items) > 0 THEN items[Len(items)].item
      ELSE Null

\* [...scored].sort((a, b) => b.perspectiveScore - a.perspectiveScore), and
\* with a and b swapped for ascending: the indices of the legal moves in
\* sorted order.  Array.prototype.sort is stable, equal scores keep the order
\* of chess.moves().
SortedByScore(scored, descending) ==
  LET before(a, b) ==
        \/ IF descending THEN scored[a].perspectiveScore > scored[b].perspectiveScore
                         ELSE scored[a].perspectiveScore < scored[b].perspectiveScore
        \/ scored[a].perspectiveScore = scored[b].perspectiveScore /\ a < b
  IN  [k \in 1..Len(scored) |->
        CHOOSE a \in 1..Len(scored) :
          Cardinality({b \in 1..Len(scored) : before(b, a)}) = k - 1]

\* slice(0, n)
Slice(q, n) == SubSeq(q, 1, Min(n, Len(q)))

\* scored.filter((x) => x.givesCheck), as indices of the legal moves.
RECURSIVE FilterChecks(_, _)
FilterChecks(scored, k) ==
  IF k > Len(scored) THEN <<>>
  ELSE (IF scored[k].givesCheck THEN <<k>> ELSE <<>>) \o FilterChecks(scored, k + 1)

BaselineItemsTopFour(scored) ==
  LET top == Slice(SortedByScore(scored, TRUE), 4)
  IN  [idx \in 1..Len(top) |-> [item |-> top[idx], weight |-> 4 - (idx - 1)]]

\* Home.jsx 1429-1431: the items of baseline mode, weight 3 - idx for the
\* 0-based idx.
BaselineItems(scored) ==
  LET top == Slice(SortedByScore(scored, TRUE), 3)
  IN  [idx \in 1..Len(top) |-> [item |-> top[idx], weight |-> 3 - (idx - 1)]]

BaitItemsWorstThree(scored) ==
  LET worst == Slice(SortedByScore(scored, FALSE), Max(3, (2 * Len(scored)) \div 10))
  IN  [idx \in 1..Len(worst) |-> [item |-> worst[idx], weight |-> 1]]

\* Home.jsx 1435-1438: the items of bait mode; Math.floor(length * 0.2) is
\* the whole part of length / 5.
BaitItems(scored) ==
  LET n == Max(2, (2 * Len(scored)) \div 10)
      worst == Slice(SortedByScore(scored, FALSE), n)
  IN  [idx \in 1..Len(worst) |-> [item |-> worst[idx], weight |-> 1]]

TrapItemsAnyMove(scored) ==
  [idx \in 1..Len(scored) |-> [item |-> idx, weight |-> 1]]

\* Home.jsx 1441-1443: the items of trap mode when a move gives check.
TrapItems(scored) ==
  LET checks == FilterChecks(scored, 1)
  IN  [idx \in 1..Len(checks) |-> [item |-> checks[idx], weight |-> 1]]

\* chooseBotMove (Home.jsx 1410-1453).  scored is the list of the legal moves
\* of ch in the order of chess.moves(), each with the material balance after
\* it seen from the mover (perspectiveScore) and whether it gives check; a
\* move is named by its place in that list.
chooseBotMove(scored, blunders, fastMoves, u) ==
  IF Len(scored) = 0 THEN Null
  ELSE
    LET mode == chooseBotMode(blunders, fastMoves)
    IN  IF mode = "baseline"
          THEN [move |-> pickWeightedRandom(BaselineItems(scored), u),
                mode |-> mode, intent |-> "solid"]
        ELSE IF mode = "bait"
          THEN [move |-> pickWeightedRandom(BaitItems(scored), u),
                mode |-> mode, intent |-> "hang_piece"]
        ELSE IF Len(TrapItems(scored)) > 0
          THEN [move |-> pickWeightedRandom(TrapItems(scored), u),
                mode |-> mode, intent |-> "give_check"]
        ELSE [move |-> SortedByScore(scored, TRUE)[1], mode |-> mode,
              intent |-> "pressure"]

(* ---- client: numbering and submitting moves (Home.jsx) ---- *)

\* The payload of submitMove; pos tells which move of the game it is.
Payload(forUid, gid, board, isBot) ==
  [uid |-> forUid, gameId |-> gid, ply |-> board.history, isBot |-> isBot,
   pos |-> board.pos]

RemoveAt(q, k) == [n \in 1..(Len(q) - 1) |-> IF n < k THEN q[n] ELSE q[n + 1]]

\* Think times on both sides of the 900 ms of applyMove.
ClientThinkTimes == {899, 900}

\* submitMove(payload) as the backend answers it when it takes the calls in
\* their order: the call fails (no answer, 4xx, 5xx: request() throws), or
\* the row is stored, or a store with the unique key finds the key of a
\* stored row and the answer is the deduplicated one (routes.js 224-232).
Submitted(sentBefore, payload, fails) ==
  [uid |-> payload.uid, gameId |-> payload.gameId, ply |-> payload.ply,
   isBot |-> payload.isBot, pos |-> payload.pos,
   answer |->
     IF fails THEN "error"
     ELSE IF moveKeyUnique /\ \E a \in 1..Len(sentBefore) :
                /\ sentBefore[a].answer = "stored"
                /\ sentBefore[a].gameId = payload.gameId
                /\ sentBefore[a].ply = payload.ply
       THEN "deduped"
     ELSE "stored"]

RECURSIVE Flush(_, _, _, _)
\* The loop of flushPendingMoves (Home.jsx 1392-1394) from the k-th queued
\* move on: the moves are submitted one after another with the game id, the
\* e-th call fails (none for e = 0) and ends the loop.
Flush(sentBefore, queue, k, e) ==
  IF k > Len(queue) THEN sentBefore
  ELSE LET sentNow == Append(sentBefore, Submitted(sentBefore, queue[k], k = e))
       IN  IF k = e THEN sentNow ELSE Flush(sentNow, queue, k + 1, e)

\* useEffect([uid]) -> ensureGameStarted -> flushPendingMoves (Home.jsx
\* 1352-1401, 1657-1671): the game started at mount arrives, the queue is
\* emptied and its moves are submitted with the game id.
ClientGameStarted(gid, e) ==
  /\ clientGame = NoVal
  /\ e \in 0..Len(pending)
  /\ clientGame' = gid
  /\ sent' = Flush(sent, [n \in 1..Len(pending) |-> [pending[n] EXCEPT !.gameId = gid]], 1, e)
  /\ pending' = <<>>
  /\ UNCHANGED <<chess, botThinking, afterPlayer, saving, thinkLog>>
  /\ UNCHANGED <<recentBlunders, recentFastMoves, streaks>>
  /\ UNCHANGED sessionVars
  /\ UNCHANGED backendVars
  /\ UNCHANGED callVars

\* maybeShowNudge looking at the think time before the hovers.
nudgeReasonThinkTimeFirst(thinkTimeMs, hoverBurst) ==
  IF thinkTimeMs >= 4200 THEN "tooSlow"
  ELSE IF thinkTimeMs <= 900 THEN "tooFast"
  ELSE IF hoverBurst >= 8 THEN "hoverBurst"
  ELSE NoVal

\* Why maybeShowNudge would show a nudge (Home.jsx 1306-1314), NoVal for no
\* reason.
nudgeReason(thinkTimeMs, hoverBurst) ==
  IF hoverBurst >= 8 THEN "hoverBurst"
  ELSE IF thinkTimeMs >= 4200 THEN "tooSlow"
  ELSE IF thinkTimeMs <= 900 THEN "tooFast"
  ELSE NoVal

\* The moves maybeShowNudge counts (Home.jsx 1298-1300): those of the last
\* profile answer or half the plies of the board, whichever is more.
nudgeMoves(moveCountNow) ==
  Max(Field(profileStats, "moves", 0), moveCountNow \div 2)

\* maybeShowNudge that does not look at nudgeEnabled.
maybeShowNudgeDrawsWhenDisabled(thinkTimeMs, hoverBurst, moveCountNow) ==
  /\ ~(nudgeMoves(moveCountNow) < 6)
  /\ ~nudge.visible
  /\ nudgeReason(thinkTimeMs, hoverBurst) # NoVal

\* maybeShowNudge gets as far as Math.random() (Home.jsx 1302-1316).
maybeShowNudgeDraws(thinkTimeMs, hoverBurst, moveCountNow) ==
  /\ ~(nudgeMoves(moveCountNow) < 6)
  /\ nudgeEnabled
  /\ ~nudge.visible
  /\ nudgeReason(thinkTimeMs, hoverBurst) # NoVal

\* maybeShowNudge calls showNudge (Home.jsx 1316-1319): Math.random() is
\* u / RandomSteps.
maybeShowNudge(thinkTimeMs, hoverBurst, moveCountNow, u) ==
  /\ maybeShowNudgeDraws(thinkTimeMs, hoverBurst, moveCountNow)
  /\ ~(u * 100 > NUDGE_SHOW_PROB * RandomSteps)

\* showNudge without its cooldown.
showNudgePassesAnyTime == TRUE

\* showNudge gets past its cooldown (Home.jsx 1277-1278).
showNudgePasses == ~(now - lastNudgeAt < NUDGE_COOLDOWN_MS)

\* showNudge past the cooldown (Home.jsx 1280-1293): the nudge is set and
\* the hard hide is the one timer armed.
showNudge(reason) ==
  /\ lastNudgeAt' = now
  /\ nudge' = [visible |-> TRUE, shownAt |-> now, reason |-> reason]
  /\ nudgeHideTimer' = NoTimer
  /\ nudgeMaxTimer' = now + NUDGE_MAX_VISIBLE_MS
  /\ shownLog' = Append(shownLog, now)

\* cancelBot that leaves the timer armed.
cancelBotKeepsTimer ==
  /\ botThinking' = FALSE
  /\ UNCHANGED botTimer

\* cancelBot (Home.jsx 1254-1259).
cancelBot ==
  /\ botTimer' = NoTimer
  /\ botThinking' = FALSE

\* clearNudgeTimers (Home.jsx 1261-1266).
clearNudgeTimers ==
  /\ nudgeHideTimer' = NoTimer
  /\ nudgeMaxTimer' = NoTimer

\* hideNudgeSoft (Home.jsx 1268-1274): clearNudgeTimers, then the soft hide
\* is the one timer armed.
hideNudgeSoft(delayMs) ==
  /\ nudgeMaxTimer' = NoTimer
  /\ nudgeHideTimer' = now + Max(0, delayMs)

\* applyMove giving every visible nudge its soft hide.
visibleLongEnoughAtOnce == nudge.visible

\* applyMove finds a nudge that has been visible long enough for its soft
\* hide (Home.jsx 1779-1782).
visibleLongEnough ==
  /\ nudge.visible
  /\ now - nudge.shownAt >= NUDGE_MIN_VISIBLE_MS

\* applyMove (Home.jsx 1747-1874) for a legal drop, but for the hover
\* window: the think time moves recentFastMoves, the move is made on a board
\* rebuilt from the FEN, ply is that board's history length; maybeShowNudge
\* may show a nudge, else a nudge shown long enough gets its soft hide; a
\* move that ends the game (over) opens the final report, which locks the
\* board; with a gameId the move is submitted, without one it is queued.
\* Either way a continuation will run (ClientQueueBot).  canCaptureTo is
\* whether the moved piece can be taken at once, hoverBurst is
\* hoverBurstRef.current.count, u the draw of Math.random().
applyMove(thinkTimeMs, canCaptureTo, fails, over, hoverBurst, u) ==
  /\ ~(reportLocked \/ botThinking)
  /\ hoverBurst = hoverBurstRef.count
  /\ chess.pos < MaxClientMoves
  /\ clientGame = NoVal => ~fails
  /\ recentFastMoves' = IF thinkTimeMs < 900 THEN recentFastMoves + 1
                        ELSE Max(0, recentFastMoves - 1)
  /\ streaks' = [lastFast |-> thinkTimeMs < 900,
                 lastBlunder |-> canCaptureTo,
                 twoFast |-> streaks.twoFast \/ (streaks.lastFast /\ thinkTimeMs < 900),
                 twoBlunders |-> streaks.twoBlunders \/ (streaks.lastBlunder /\ canCaptureTo)]
  /\ LET next == ChessMove(ChessFromFen(chess))
         payload == Payload(uid, clientGame, next, FALSE)
         moveCountNow == next.history
     IN  /\ chess' = next
         /\ random' = IF maybeShowNudgeDraws(thinkTimeMs, hoverBurst, moveCountNow)
                        THEN u ELSE random
         /\ IF maybeShowNudge(thinkTimeMs, hoverBurst, moveCountNow, u) /\ showNudgePasses
              THEN showNudge(nudgeReason(thinkTimeMs, hoverBurst))
              ELSE IF visibleLongEnough
                THEN /\ hideNudgeSoft(NUDGE_AFTER_MOVE_GRACE_MS)
                     /\ UNCHANGED <<nudge, lastNudgeAt, shownLog>>
              ELSE UNCHANGED <<nudge, lastNudgeAt, nudgeHideTimer, nudgeMaxTimer,
                               shownLog>>
         /\ IF clientGame = NoVal
              THEN /\ pending' = Append(pending, payload)
                   /\ sent' = sent
              ELSE /\ sent' = Append(sent, Submitted(sent, payload, fails))
                   /\ pending' = pending
         /\ saving' = Append(saving,
              [board |-> next, gid |-> clientGame, uid |-> uid, over |-> over,
               quality |-> labelMoveQuality(canCaptureTo),
               thinkTimeMs |-> thinkTimeMs,
               sentAt |-> IF clientGame = NoVal THEN 0 ELSE Len(sent) + 1])
  /\ reportLocked' = over
  /\ UNCHANGED <<clientGame, botThinking, afterPlayer, thinkLog, recentBlunders>>
  /\ UNCHANGED <<now, uid, botTimer, nudgeEnabled, profileStats, refreshing,
                 interventionsDue>>
  /\ UNCHANGED <<botRunning, strayTimers>>
  /\ UNCHANGED backendVars
  /\ UNCHANGED callVars

\* applyMove in a session without hover events: the count it reads is 0, and
\* the windowStart it writes (Home.jsx 1787-1788) is read by no handler of
\* such a session and is not kept.
ClientApplyMove(thinkTimeMs, canCaptureTo, fails, over, hoverBurst, u) ==
  /\ applyMove(thinkTimeMs, canCaptureTo, fails, over, hoverBurst, u)
  /\ UNCHANGED <<hoverBurstRef, hoverLog>>

\* applyMove's reset of the hover window (Home.jsx 1787-1788).
resetHoverBurst ==
  hoverBurstRef' = [count |-> 0, windowStart |-> now]

\* applyMove in a session with hover events: the count is read for
\* maybeShowNudge and the window is reset after it.
HoverApplyMove(thinkTimeMs, u) ==
  /\ applyMove(thinkTimeMs, FALSE, FALSE, FALSE, hoverBurstRef.count, u)
  /\ resetHoverBurst
  /\ hoverLog' = <<>>

\* onMouseOverSquare counting from the start of the page.
hoverWindowNeverEnds(win) == win

\* onMouseOverSquare (Home.jsx 1915-1918): a window that was never started
\* or started more than 10 s ago is started anew, empty.
hoverWindow(win) ==
  IF win.windowStart = 0 \/ now - win.windowStart > 10000
    THEN [count |-> 0, windowStart |-> now]
    ELSE win

\* onMouseOverSquare (Home.jsx 1909-1920): the hover is counted in the
\* window.
MouseOverSquare ==
  /\ Len(hoverLog) < MaxHovers
  /\ hoverBurstRef' = [hoverWindow(hoverBurstRef) EXCEPT !.count = @ + 1]
  /\ hoverLog' = Append(hoverLog, now)
  /\ UNCHANGED <<chess, clientGame, botThinking, afterPlayer, pending, saving,
                 sent, recentBlunders, recentFastMoves, streaks, thinkLog>>
  /\ UNCHANGED <<now, uid, reportLocked, botTimer, nudge, lastNudgeAt,
                 nudgeHideTimer, nudgeMaxTimer, nudgeEnabled, profileStats,
                 refreshing, interventionsDue, random, shownLog>>
  /\ UNCHANGED <<botRunning, strayTimers>>
  /\ UNCHANGED backendVars
  /\ UNCHANGED callVars

\* The quality in the answer to a player move (routes.js 231, 265).
AnswerQuality(answer, quality) == IF answer = "deduped" THEN "ok" ELSE quality

\* The armed timer botTimerRef holds, with the closure of its callback.
HeldTimer ==
  IF botTimer = NoTimer THEN {}
  ELSE {[due |-> botTimer, board |-> afterPlayer.board, gid |-> afterPlayer.gid,
         uid |-> afterPlayer.uid]}

\* queueBotResponse that arms a reply to a finished game as well.
queueBotResponseAfterGameOver(nextChessAfterPlayer, botThinkMs) ==
  IF botThinking
    THEN UNCHANGED <<botThinking, afterPlayer, botTimer, strayTimers>>
    ELSE /\ botThinking' = TRUE
         /\ botTimer' = now + botThinkMs
         /\ afterPlayer' = [board |-> nextChessAfterPlayer.board,
                            gid |-> nextChessAfterPlayer.gid,
                            uid |-> nextChessAfterPlayer.uid]
         /\ strayTimers' = strayTimers \cup HeldTimer

\* queueBotResponse up to the arming of the timer (Home.jsx 1526-1539, with
\* the caller's test of 1824, 1843, 1866): nothing for a finished game and
\* while a reply is pending, else the engine thinks and the reply to the
\* board after the player's move is due botThinkMs later.  botTimerRef is
\* overwritten: a timer it held stays armed.
queueBotResponse(nextChessAfterPlayer, botThinkMs) ==
  IF nextChessAfterPlayer.over \/ botThinking
    THEN UNCHANGED <<botThinking, afterPlayer, botTimer, strayTimers>>
    ELSE /\ botThinking' = TRUE
         /\ botTimer' = now + botThinkMs
         /\ afterPlayer' = [board |-> nextChessAfterPlayer.board,
                            gid |-> nextChessAfterPlayer.gid,
                            uid |-> nextChessAfterPlayer.uid]
         /\ strayTimers' = strayTimers \cup HeldTimer

\* The continuation of a committed move (Home.jsx 1819-1827, 1836-1848,
\* 1849-1869): after an answer recentBlunders moves by the quality of the
\* answer; after a failed call and for a queued move it is left alone.  Then
\* queueBotResponse, and refreshProfile for the uid of the move.  The backend creates the Game row of a move itself, so the foreign
\* key error the catch looks for does not come.
ClientQueueBot(k, botThinkMs) ==
  /\ k \in 1..Len(saving)
  /\ saving' = RemoveAt(saving, k)
  /\ LET answer == IF saving[k].sentAt = 0 THEN "queued" ELSE sent[saving[k].sentAt].answer
     IN  recentBlunders' =
           IF answer \in {"stored", "deduped"}
             THEN IF AnswerQuality(answer, saving[k].quality) = "blunder"
                    THEN recentBlunders + 1
                    ELSE Max(0, recentBlunders - 1)
             ELSE recentBlunders
  /\ queueBotResponse(saving[k], botThinkMs)
  /\ refreshing' = refreshing \cup {saving[k].uid}
  /\ UNCHANGED <<chess, clientGame, pending, sent, thinkLog, recentFastMoves, streaks>>
  /\ UNCHANGED <<now, uid, reportLocked, nudge, lastNudgeAt, nudgeHideTimer,
                 nudgeMaxTimer, nudgeEnabled, profileStats, interventionsDue,
                 random,
                 shownLog>>
  /\ UNCHANGED <<hoverBurstRef, hoverLog, botRunning>>
  /\ UNCHANGED backendVars
  /\ UNCHANGED callVars

\* The bot timer of queueBotResponse (Home.jsx 1539-1607): the reply is made
\* on a board rebuilt from the FEN after the player's move, botPly is that
\* board's history length; it is submitted when the closure has a gameId
\* (without one ensureGameStarted answers null while startedForUidRef is
\* taken by the start made at mount); then refreshProfile for the uid of the
\* closure, and the engine stops thinking.  This is the callback whose save
\* is answered before anything else happens on the page.
ClientBotTimer(fails) ==
  /\ botThinking
  /\ botTimer = now
  /\ afterPlayer.gid = NoVal => ~fails
  /\ LET base == ChessMove(ChessFromFen(afterPlayer.board))
     IN  /\ chess' = base
         /\ sent' = IF afterPlayer.gid # NoVal
                      THEN Append(sent, Submitted(sent,
                             Payload(afterPlayer.uid, afterPlayer.gid, base, TRUE), fails))
                      ELSE sent
  /\ botTimer' = NoTimer
  /\ botThinking' = FALSE
  /\ refreshing' = refreshing \cup {afterPlayer.uid}
  /\ UNCHANGED <<clientGame, afterPlayer, pending, saving, thinkLog>>
  /\ UNCHANGED <<recentBlunders, recentFastMoves, streaks>>
  /\ UNCHANGED <<now, uid, reportLocked, nudge, lastNudgeAt, nudgeHideTimer,
                 nudgeMaxTimer, nudgeEnabled, profileStats, interventionsDue,
                 random,
                 shownLog>>
  /\ UNCHANGED <<hoverBurstRef, hoverLog, botRunning, strayTimers>>
  /\ UNCHANGED backendVars
  /\ UNCHANGED callVars

\* The callback of a bot timer (Home.jsx 1539-1607) up to its first call
\* that is answered by the network: botTimerRef is emptied, whichever timer
\* it held, and that timer stays armed; the reply is made on a board rebuilt
\* from the FEN of the closure.  With a gameId in the closure nothing is
\* queued for its uid any more (the queue was flushed when the id came),
\* the reply is shown and submitted, and the callback waits for the answer.
\* Without one ensureGameStarted answers null at once, and the callback runs
\* to its end: refreshProfile, and the engine stops thinking.
botCallback(closure, fails) ==
  /\ closure.gid = NoVal => ~fails
  /\ botTimer' = NoTimer
  /\ LET base == ChessMove(ChessFromFen(closure.board))
     IN  /\ chess' = base
         /\ sent' = IF closure.gid # NoVal
                      THEN Append(sent, Submitted(sent,
                             Payload(closure.uid, closure.gid, base, TRUE), fails))
                      ELSE sent
  /\ IF closure.gid # NoVal
       THEN /\ botRunning' = Append(botRunning, [uid |-> closure.uid])
            /\ UNCHANGED <<botThinking, refreshing>>
       ELSE /\ botThinking' = FALSE
            /\ refreshing' = refreshing \cup {closure.uid}
            /\ UNCHANGED botRunning
  /\ UNCHANGED <<clientGame, afterPlayer, pending, saving, thinkLog>>
  /\ UNCHANGED <<recentBlunders, recentFastMoves, streaks>>
  /\ UNCHANGED <<now, uid, reportLocked, nudge, lastNudgeAt, nudgeHideTimer,
                 nudgeMaxTimer, nudgeEnabled, profileStats, interventionsDue,
                 random, shownLog>>
  /\ UNCHANGED <<hoverBurstRef, hoverLog>>
  /\ UNCHANGED backendVars
  /\ UNCHANGED callVars

\* The timer botTimerRef holds fires.
BotTimerFires(fails) ==
  /\ botTimer = now
  /\ botCallback([board |-> afterPlayer.board, gid |-> afterPlayer.gid,
                  uid |-> afterPlayer.uid], fails)
  /\ UNCHANGED strayTimers

\* A timer botTimerRef no longer holds fires.
StrayTimerFires(t, fails) ==
  /\ t \in strayTimers
  /\ t.due = now
  /\ botCallback(t, fails)
  /\ strayTimers' = (strayTimers \ {t}) \cup HeldTimer

\* A bot callback that never gets to its finally.
botCallbackEndsStillThinking ==
  UNCHANGED botThinking

\* The finally of the bot callback (Home.jsx 1602-1606).
botCallbackEnds ==
  botThinking' = FALSE

\* The submitMove of a bot callback is answered, stored or failed (Home.jsx
\* 1577-1606): refreshProfile for the uid of the closure, and the engine
\* stops thinking.
BotCallbackEnds(k) ==
  /\ k \in 1..Len(botRunning)
  /\ botRunning' = RemoveAt(botRunning, k)
  /\ refreshing' = refreshing \cup {botRunning[k].uid}
  /\ botCallbackEnds
  /\ UNCHANGED <<chess, clientGame, afterPlayer, pending, saving, sent,
                 recentBlunders, recentFastMoves, streaks, thinkLog>>
  /\ UNCHANGED <<now, uid, reportLocked, botTimer, nudge, lastNudgeAt,
                 nudgeHideTimer, nudgeMaxTimer, nudgeEnabled, profileStats,
                 interventionsDue, random, shownLog>>
  /\ UNCHANGED <<hoverBurstRef, hoverLog, strayTimers>>
  /\ UNCHANGED backendVars
  /\ UNCHANGED callVars

\* The shortest botThinkMs (Home.jsx 1537): 450 + floor(Math.random() * 700)
\* with Math.random() = 0.
MinBotThinkMs == 450

\* The timers that are armed, by the instant they are due.
Timers ==
  ({botTimer, nudgeHideTimer, nudgeMaxTimer} \cup {t.due : t \in strayTimers})
    \ {NoTimer}

\* Time passes until t (Date.now(), Home.jsx 1277, 1780), a timer fires when
\* it is due: no instant later than a due timer comes before it has fired.
Tick(t) ==
  /\ t > now
  /\ \A due \in Timers : t <= due
  /\ now' = t
  /\ UNCHANGED <<chess, clientGame, botThinking, afterPlayer, pending, saving,
                 sent, recentBlunders, recentFastMoves, streaks, thinkLog>>
  /\ UNCHANGED <<uid, reportLocked, botTimer, nudge, lastNudgeAt,
                 nudgeHideTimer, nudgeMaxTimer, nudgeEnabled, profileStats,
                 refreshing, interventionsDue, random,
                 shownLog>>
  /\ UNCHANGED <<hoverBurstRef, hoverLog, botRunning, strayTimers>>
  /\ UNCHANGED backendVars
  /\ UNCHANGED callVars

\* The hard hide fires (Home.jsx 1290-1293).
NudgeMaxTimer ==
  /\ nudgeMaxTimer = now
  /\ nudge' = NoNudge
  /\ nudgeMaxTimer' = NoTimer
  /\ UNCHANGED <<chess, clientGame, botThinking, afterPlayer, pending, saving,
                 sent, recentBlunders, recentFastMoves, streaks, thinkLog>>
  /\ UNCHANGED <<now, uid, reportLocked, botTimer, lastNudgeAt, nudgeHideTimer,
                 nudgeEnabled, profileStats, refreshing, interventionsDue, random,
                 shownLog>>
  /\ UNCHANGED <<hoverBurstRef, hoverLog, botRunning, strayTimers>>
  /\ UNCHANGED backendVars
  /\ UNCHANGED callVars

\* The soft hide fires (Home.jsx 1270-1273).
NudgeHideTimer ==
  /\ nudgeHideTimer = now
  /\ nudge' = NoNudge
  /\ nudgeHideTimer' = NoTimer
  /\ UNCHANGED <<chess, clientGame, botThinking, afterPlayer, pending, saving,
                 sent, recentBlunders, recentFastMoves, streaks, thinkLog>>
  /\ UNCHANGED <<now, uid, reportLocked, botTimer, lastNudgeAt, nudgeMaxTimer,
                 nudgeEnabled, profileStats, refreshing, interventionsDue, random,
                 shownLog>>
  /\ UNCHANGED <<hoverBurstRef, hoverLog, botRunning, strayTimers>>
  /\ UNCHANGED backendVars
  /\ UNCHANGED callVars

\* The human moves the store has aggregated for uid u: those of the profile
\* the page was loaded with, and those submitted and stored since.
MoveCountOf(u) ==
  (IF u = 0 /\ hasProfile THEN profile.moveCount ELSE 0)
  + Cardinality({a \in 1..Len(sent) :
                   sent[a].uid = u /\ ~sent[a].isBot /\ sent[a].answer = "stored"})

\* refreshProfile(forUid) is answered (Home.jsx 1342-1350, routes.js
\* 274-347): the stats of forUid become profileStats, whoever is playing
\* now; a failed call leaves profileStats as it is.
RefreshProfile(forUid, fails) ==
  /\ forUid \in refreshing
  /\ refreshing' = refreshing \ {forUid}
  /\ profileStats' = IF fails THEN profileStats ELSE [moves |-> MoveCountOf(forUid)]
  /\ UNCHANGED <<chess, clientGame, botThinking, afterPlayer, pending, saving,
                 sent, recentBlunders, recentFastMoves, streaks, thinkLog>>
  /\ UNCHANGED <<now, uid, reportLocked, botTimer, nudge, lastNudgeAt,
                 nudgeHideTimer, nudgeMaxTimer, nudgeEnabled, interventionsDue,
                 random,
                 shownLog>>
  /\ UNCHANGED <<hoverBurstRef, hoverLog, botRunning, strayTimers>>
  /\ UNCHANGED backendVars
  /\ UNCHANGED callVars

\* getInterventions(uid) is answered for the uid that is playing and the
\* effect on interventions runs (Home.jsx 1674-1699): a boolean
\* nudgeTakeASecond becomes nudgeEnabled.
InterventionsArrived(nudgeTakeASecond) ==
  /\ interventionsDue
  /\ interventionsDue' = FALSE
  /\ nudgeEnabled' = nudgeTakeASecond
  /\ UNCHANGED <<chess, clientGame, botThinking, afterPlayer, pending, saving,
                 sent, recentBlunders, recentFastMoves, streaks, thinkLog>>
  /\ UNCHANGED <<now, uid, reportLocked, botTimer, nudge, lastNudgeAt,
                 nudgeHideTimer, nudgeMaxTimer, profileStats, refreshing, random,
                 shownLog>>
  /\ UNCHANGED <<hoverBurstRef, hoverLog, botRunning, strayTimers>>
  /\ UNCHANGED backendVars
  /\ UNCHANGED callVars

\* resetGame and the effects of the new uid (Home.jsx 1701-1746, 1625-1654,
\* 1674-1691): the queue loses the moves of the old uid, the bot and the
\* nudge timers are cleared, the nudge and the report are closed, the board
\* is a new one without a gameId, the memory of the engine is zeroed, and
\* the profile and the interventions of the new uid are asked for.  What a
\* call in flight or a running callback does later is not undone.
ResetGame ==
  /\ uid + 1 \in Uids
  /\ uid' = uid + 1
  /\ pending' = SelectSeq(pending, LAMBDA m : m.uid # uid)
  /\ cancelBot
  /\ clearNudgeTimers
  /\ nudge' = NoNudge
  /\ reportLocked' = FALSE
  /\ chess' = NewChess
  /\ clientGame' = NoVal
  /\ recentFastMoves' = 0
  /\ recentBlunders' = 0
  /\ streaks' = NoStreaks
  /\ refreshing' = refreshing \cup {uid + 1}
  /\ interventionsDue' = TRUE
  /\ UNCHANGED <<afterPlayer, saving, sent, thinkLog>>
  /\ UNCHANGED <<now, lastNudgeAt, nudgeEnabled, profileStats, random,
                 shownLog>>
  /\ UNCHANGED <<hoverBurstRef, hoverLog, botRunning, strayTimers>>
  /\ UNCHANGED backendVars
  /\ UNCHANGED callVars

\* Unhurried moves that cannot be taken back at once, every call answered.
NextClient ==
  \/ \E gid \in GameIds : ClientGameStarted(gid, 0)
  \/ ClientApplyMove(900, FALSE, FALSE, FALSE, 0, 0)
  \/ \E k \in 1..MaxClientMoves : ClientQueueBot(k, MinBotThinkMs)
  \/ ClientBotTimer(FALSE)
  \/ \E t \in Timers : Tick(t)

SpecClient == Init /\ [][NextClient]_vars

\* Moves of either pace and quality, calls for player moves that may fail;
\* the player is at most one move ahead of the continuations.
NextMemory ==
  \/ \E gid \in GameIds : ClientGameStarted(gid, 0)
  \/ \E thinkTimeMs \in ClientThinkTimes, canCaptureTo \in BOOLEAN, fails \in BOOLEAN :
       Len(saving) <= 1 /\ ClientApplyMove(thinkTimeMs, canCaptureTo, fails, FALSE, 0, 0)
  \/ \E k \in 1..MaxClientMoves : ClientQueueBot(k, MinBotThinkMs)
  \/ ClientBotTimer(FALSE)
  \/ \E t \in Timers : Tick(t)

SpecMemory == Init /\ [][NextMemory]_vars

\* C4 (as claimed): no two submitted moves of a game carry the same ply.
C4_PlyUniquePerGame ==
  \A a, b \in 1..Len(sent) :
    a # b => ~(sent[a].gameId = sent[b].gameId /\ sent[a].ply = sent[b].ply)

\* C9 (as claimed): after any sequence of player moves avgThinkTimeMs is
\* within 1 ms of the mean of their think times.
C9_MeanWithinOneMs ==
  LET n == Len(thinkLog)
  IN  n > 0 => Abs(n * profile.avgThinkTimeMs - SumSeq(thinkLog)) <= n

\* C9 (amended): after n player moves avgThinkTimeMs differs from the mean of
\* their think times by at most n/4 ms.
C9_DriftAtMostQuarterPerMove ==
  LET n == Len(thinkLog)
  IN  n > 0 => 4 * Abs(n * profile.avgThinkTimeMs - SumSeq(thinkLog)) <= n * n

\* C9 witness: five moves aggregated, the stored average off the mean by
\* more than 1 ms.
C9_Witness ==
  /\ Len(thinkLog) >= 5
  /\ Abs(Len(thinkLog) * profile.avgThinkTimeMs - SumSeq(thinkLog)) > Len(thinkLog)

\* A handler writes profile.segment and answers.
SegmentWriteStep(i) ==
  /\ reqs[i].pc \in {"updateSegment", "writeSegment"}
  /\ reqs'[i].pc = "done"

InsightLabels ==
  {"Warming up", "Unstable", "Impulsive", "Reflective", "Hesitant", "Explorer",
   "Balanced"}

\* C13: whenever a handler (player move, hint event, profile read) writes
\* profile.segment, the stored segment is the label the segment classifier
\* gives for the aggregates the profile then holds, one of its seven labels.
C13_SegmentIsClassifierLabel ==
  [][\A i \in ReqIds :
       SegmentWriteStep(i) =>
         /\ profile'.segment \in InsightLabels
         /\ profile'.segment =
              getBehaviorInsight(ProfileStats(profile', Min(500, events'["hover"]))).label]_vars

(* ---- the segment classifier applied on its own ---- *)

\* Inputs around every threshold of the classifier.
InsightMoveCounts == {0, 5, 6, 10}
InsightThinkTimes == {15, 22, 23, 39, 40, 59, 60, 70}
InsightBlunderRates == {10, 20, 21, 24, 25, 30, 34, 35}
InsightHoverCounts == {0, 23, 24, 29, 30, 39, 40, 49, 50}

InitInsight ==
  /\ BackendInit
  /\ ClientInit
  /\ thinkLog = <<>>
  /\ callArgs \in {Stats(mc, at, br, hc) : mc \in InsightMoveCounts,
                     at \in InsightThinkTimes, br \in InsightBlunderRates,
                     hc \in InsightHoverCounts}
  /\ callResult = NoResult

CallGetBehaviorInsight ==
  /\ callResult = NoResult
  /\ callResult' = getBehaviorInsight(callArgs)
  /\ UNCHANGED callArgs
  /\ UNCHANGED <<backendVars, clientVars, thinkLog>>

NextInsight == CallGetBehaviorInsight

SpecInsight == InitInsight /\ [][NextInsight]_vars

\* The rules of the classifier in their order, as conditions on the numbers
\* the classifier is given; hoversPerMove is hoverCount / moveCount.
InsightRules(s) ==
  << [when |-> s.moveCount < 6, label |-> "Warming up"],
     [when |-> s.blunderRate >= 35, label |-> "Unstable"],
     [when |-> s.avgThinkTime <= 22 /\ s.blunderRate >= 25, label |-> "Impulsive"],
     [when |-> s.avgThinkTime >= 60 /\ s.blunderRate <= 20, label |-> "Reflective"],
     [when |-> s.avgThinkTime >= 40 /\ s.moveCount > 0 /\ 10 * s.hoverCount >= 40 * s.moveCount,
      label |-> "Hesitant"],
     [when |-> s.moveCount > 0 /\ 10 * s.hoverCount >= 50 * s.moveCount, label |-> "Explorer"],
     [when |-> TRUE, label |-> "Balanced"] >>

FirstMatch(rules) ==
  CHOOSE k \in 1..Len(rules) : rules[k].when /\ \A j \in 1..(k - 1) : ~rules[j].when

\* C11: for every input the classifier answers, and its label is the label of
\* the first rule, in the fixed order, whose condition holds; (10 moves, 1.5 s,
\* 30 %) is Impulsive and (10 moves, 7 s, 10 %) is Reflective.
C11_FirstMatchingRule ==
  callResult # NoResult =>
    /\ callResult.label = InsightRules(callArgs)[FirstMatch(InsightRules(callArgs))].label
    /\ (callArgs.moveCount = 10 /\ callArgs.avgThinkTime = 15 /\ callArgs.blunderRate = 30)
         => callResult.label = "Impulsive"
    /\ (callArgs.moveCount = 10 /\ callArgs.avgThinkTime = 70 /\ callArgs.blunderRate = 10)
         => callResult.label = "Reflective"

\* C11 witness: a fast player with a 35 % blunder rate, where the second and
\* the third rule both match, has been classified by the earlier one.
C11_Witness ==
  /\ callResult # NoResult
  /\ callArgs.moveCount = 10 /\ callArgs.avgThinkTime = 15 /\ callArgs.blunderRate = 35
  /\ callResult.label = "Unstable"

\* C12: with fewer than 6 moves the classifier answers the warming-up label,
\* whatever the think time, the blunder rate and the hover count are.
C12_WarmingUpBelowSixMoves ==
  (callResult # NoResult /\ callArgs.moveCount < 6) => callResult.label = "Warming up"

\* C12 witness: five moves whose other numbers match the rules for Unstable,
\* Impulsive and Explorer have been classified.
C12_Witness ==
  /\ callResult # NoResult
  /\ callArgs.moveCount = 5 /\ callArgs.blunderRate = 35
  /\ callArgs.avgThinkTime = 15 /\ callArgs.hoverCount = 50
  /\ callResult.label = "Warming up"

(* ---- the move quality label applied on its own ---- *)

Squares == {"d5", "e4"}

\* Flags of chess.js: n quiet, c capture, cp capture with promotion, e en
\* passant capture.
FlagSets == {{"n"}, {"c"}, {"c", "p"}, {"e"}}

VerboseMoves == [to : Squares, flags : FlagSets]

\* The positions after a move to the square to: the moved piece stands on
\* it, so a legal move that lands there takes it (an en passant capture lands
\* on an empty square).
PositionsAfter(to) ==
  {legalMoves \in SUBSET VerboseMoves :
     \A m \in legalMoves : m.to = to => m.flags \in {{"c"}, {"c", "p"}}}

InitQuality ==
  /\ BackendInit
  /\ ClientInit
  /\ thinkLog = <<>>
  /\ \E to \in Squares : \E legalMoves \in PositionsAfter(to) :
       callArgs = [legalMoves |-> legalMoves, lastMove |-> [to |-> to]]
  /\ callResult = NoResult

CallLabelMoveQuality ==
  /\ callResult = NoResult
  /\ callResult' = [quality |-> labelMoveQualityOn(callArgs.legalMoves, callArgs.lastMove)]
  /\ UNCHANGED callArgs
  /\ UNCHANGED <<backendVars, clientVars, thinkLog>>

NextQuality == CallLabelMoveQuality

SpecQuality == InitQuality /\ [][NextQuality]_vars

\* C14: the label is "blunder" exactly when one of the opponent's legal moves
\* in the position after the played move is a capture that lands on the
\* played move's destination; otherwise, also when the opponent has no legal
\* move, it is "good".
C14_BlunderIffRecapture ==
  callResult # NoResult =>
    /\ callResult.quality \in {"blunder", "good"}
    /\ callResult.quality = "blunder" <=>
         \E m \in callArgs.legalMoves :
           m.to = callArgs.lastMove.to /\ m.flags \in {{"c"}, {"c", "p"}, {"e"}}

\* C14 witness: the opponent has captures, none of them on the destination
\* of the played move, and the move has been labelled good.
C14_Witness ==
  /\ callResult # NoResult
  /\ callArgs.lastMove.to = "e4"
  /\ [to |-> "d5", flags |-> {"c"}] \in callArgs.legalMoves
  /\ [to |-> "d5", flags |-> {"e"}] \in callArgs.legalMoves
  /\ callResult.quality = "good"

(* ---- the opponent engine applied on its own ---- *)

ScoreValues == {-1, 0, 3}
MemoryValues == {1, 2, 3}
LongLegalCounts == {5, 10, 15}

ScoredMoves == [perspectiveScore : ScoreValues, givesCheck : BOOLEAN]

\* Positions with many legal moves: scores going round, falling, all equal.
LongPosition(n, shape) ==
  [k \in 1..n |->
    IF shape = 1 THEN [perspectiveScore |-> k % 3, givesCheck |-> k = n]
    ELSE IF shape = 2 THEN [perspectiveScore |-> n - k, givesCheck |-> FALSE]
    ELSE [perspectiveScore |-> 0, givesCheck |-> k \in {2, 7}]]

\* Every position with up to MaxLegal legal moves, and the long ones.
Positions ==
  UNION {[1..n -> ScoredMoves] : n \in 0..MaxLegal}
    \cup {LongPosition(n, shape) : n \in LongLegalCounts, shape \in 1..3}

InitBot ==
  /\ BackendInit
  /\ moveKeyUnique = FALSE
  /\ chess = NewChess
  /\ clientGame = NoVal
  /\ botThinking = FALSE
  /\ afterPlayer = [board |-> NewChess, gid |-> NoVal, uid |-> 0]
  /\ pending = <<>>
  /\ saving = <<>>
  /\ sent = <<>>
  /\ recentBlunders \in MemoryValues
  /\ recentFastMoves \in MemoryValues
  /\ streaks = NoStreaks
  /\ SessionInit
  /\ thinkLog = <<>>
  /\ callArgs \in Positions
  /\ callResult = NoResult

CallChooseBotMove(u) ==
  /\ callResult = NoResult
  /\ callResult' = [picked |-> chooseBotMove(callArgs, recentBlunders, recentFastMoves, u),
                    random |-> u]
  /\ UNCHANGED callArgs
  /\ UNCHANGED <<backendVars, clientVars, thinkLog>>

NextBot == \E u \in 0..(RandomSteps - 1) : CallChooseBotMove(u)

SpecBot == InitBot /\ [][NextBot]_vars

\* The engine has chosen a move.
Picked == callResult # NoResult /\ callResult.picked # Null

\* C15: the mode of a turn is trap when recentBlunders >= 2, whatever
\* recentFastMoves is, else bait when recentFastMoves >= 2, else baseline.
C15_ModeFromMemory ==
  Picked =>
    /\ callResult.picked.mode = "trap" <=> recentBlunders >= 2
    /\ callResult.picked.mode = "bait" <=> (recentBlunders < 2 /\ recentFastMoves >= 2)
    /\ callResult.picked.mode = "baseline" <=> (recentBlunders < 2 /\ recentFastMoves < 2)

\* C15 witness: both counters are at 2 and the turn was played in trap mode.
C15_Witness ==
  /\ Picked
  /\ recentBlunders = 2 /\ recentFastMoves = 2
  /\ callResult.picked.mode = "trap"

\* The place of move m when the moves are put in descending (ascending)
\* order of score, moves of equal score in the order of the move list.
PlaceByScore(scored, m, descending) ==
  1 + Cardinality({k \in 1..Len(scored) :
        \/ IF descending THEN scored[k].perspectiveScore > scored[m].perspectiveScore
                         ELSE scored[k].perspectiveScore < scored[m].perspectiveScore
        \/ scored[k].perspectiveScore = scored[m].perspectiveScore /\ k < m})

\* The draw u / RandomSteps of Math.random() falls into the share (lo, hi] of
\* total, 0 counting to the first share.
DrawnAt(u, lo, hi, total) ==
  \/ u = 0 /\ lo = 0
  \/ RandomSteps * lo < u * total /\ u * total <= RandomSteps * hi

\* Some draw makes the engine choose move m.
CanPick(m) ==
  \E u \in 0..(RandomSteps - 1) :
    chooseBotMove(callArgs, recentBlunders, recentFastMoves, u).move = m

\* 3 + 2 + 1 up to the p-th weight.
WeightsUpTo(p) == (p * (7 - p)) \div 2

\* C16: in trap mode, when some legal move gives check the chosen move gives
\* check, and when none does the chosen move has the highest score.
C16_TrapChecksElseBest ==
  (Picked /\ callResult.picked.mode = "trap") =>
    IF \E k \in 1..Len(callArgs) : callArgs[k].givesCheck
      THEN callArgs[callResult.picked.move].givesCheck
      ELSE \A k \in 1..Len(callArgs) :
             callArgs[k].perspectiveScore <= callArgs[callResult.picked.move].perspectiveScore

\* C16 witness: trap mode, a checking move and a better scoring move that
\* gives no check; the checking move has been chosen.
C16_Witness ==
  /\ Picked /\ callResult.picked.mode = "trap"
  /\ callArgs[callResult.picked.move].givesCheck
  /\ \E k \in 1..Len(callArgs) :
       /\ ~callArgs[k].givesCheck
       /\ callArgs[k].perspectiveScore > callArgs[callResult.picked.move].perspectiveScore

\* C17: in baseline mode the chosen move is one of the (at most) 3 moves
\* with the highest score, each of them can be chosen, and the move in place
\* p of the descending order is drawn with weight 4 - p out of the weights
\* of the candidates.
C17_BaselineTopThreeWeighted ==
  (Picked /\ callResult.picked.mode = "baseline") =>
    LET n == Min(3, Len(callArgs))
        place == PlaceByScore(callArgs, callResult.picked.move, TRUE)
    IN  /\ place <= n
        /\ DrawnAt(callResult.random, WeightsUpTo(place - 1), WeightsUpTo(place),
                   WeightsUpTo(n))
        /\ \A m \in 1..Len(callArgs) : PlaceByScore(callArgs, m, TRUE) <= n => CanPick(m)

\* C17 witness: baseline mode, more than 3 legal moves of different scores,
\* the third best has been chosen.
C17_Witness ==
  /\ Picked /\ callResult.picked.mode = "baseline"
  /\ Len(callArgs) > 3
  /\ Cardinality({k \in 1..Len(callArgs) :
       callArgs[k].perspectiveScore > callArgs[callResult.picked.move].perspectiveScore}) = 2

\* C18: in bait mode the chosen move is one of the max(2, floor(0.2 *
\* legalCount)) moves with the lowest score (the only move when there is
\* one), each of them can be chosen, and each has the same share of the draw.
C18_BaitWorstUniform ==
  (Picked /\ callResult.picked.mode = "bait") =>
    LET n == Min(Max(2, (Len(callArgs) * 2) \div 10), Len(callArgs))
        place == PlaceByScore(callArgs, callResult.picked.move, FALSE)
    IN  /\ place <= n
        /\ DrawnAt(callResult.random, place - 1, place, n)
        /\ \A m \in 1..Len(callArgs) : PlaceByScore(callArgs, m, FALSE) <= n => CanPick(m)

\* C18 witness: bait mode, 15 legal moves, the third worst has been chosen.
C18_Witness ==
  /\ Picked /\ callResult.picked.mode = "bait"
  /\ Len(callArgs) = 15
  /\ PlaceByScore(callArgs, callResult.picked.move, FALSE) = 3

(* ---- the memory of the opponent engine ---- *)

\* The continuation of the k-th committed move runs: the last step before
\* queueBotResponse can arm the reply to that move.
ContinuationStep(k) ==
  /\ k \in 1..Len(saving)
  /\ saving' = RemoveAt(saving, k)

\* C19: on every path of a committed player move (submitted and answered,
\* queued without a game id, failed call, deduplicated answer) the
\* continuation that leads to the opponent's reply moves recentBlunders once,
\* by +1 when the move is a blunder and by -1 down to 0 when it is not, and
\* nothing else moves it.
C19_BlundersUpdatedOncePerMove ==
  [][/\ \A k \in 1..Len(saving) :
          ContinuationStep(k) =>
            recentBlunders' = IF saving[k].quality = "blunder"
                                THEN recentBlunders + 1
                                ELSE Max(0, recentBlunders - 1)
     /\ (\A k \in 1..Len(saving) : ~ContinuationStep(k)) =>
          recentBlunders' = recentBlunders]_vars

\* C20: starting from (0, 0), while no two moves in a row were fast the mode
\* is not bait, while no two moves in a row were blunders the mode is not
\* trap, and neither counter is negative.
C20_Hysteresis ==
  /\ ~streaks.twoFast => chooseBotMode(0, recentFastMoves) # "bait"
  /\ ~streaks.twoBlunders => chooseBotMode(recentBlunders, 0) # "trap"
  /\ recentBlunders >= 0 /\ recentFastMoves >= 0

(* ---- a session: games, new games, nudges and their timers ---- *)

\* The moves a returning uid has played before the page is loaded, on both
\* sides of the six of maybeShowNudge.
PriorMoves == {5, 6}

\* The game ids the backend hands out, one per uid.
GameOf(u) == <<"g1", "g2", "g3", "g4">>[u + 1]

\* How far the instants of a session are apart: NUDGE_MIN_VISIBLE_MS, and a
\* step that divides NUDGE_MAX_VISIBLE_MS and NUDGE_COOLDOWN_MS.
TimeSteps == {NUDGE_MIN_VISIBLE_MS, 5000}

\* A session is followed for a cooldown and a half.
SessionEnd == LoadedAt + 30000

\* Think times on both sides of the 900 ms of maybeShowNudge.
NudgeThinkTimes == {900, 901}

\* The page is loaded by a uid that has played PriorMoves moves of an
\* earlier game "g0".
InitSession ==
  /\ moveKeyUnique = FALSE
  /\ hasUser = TRUE
  /\ hasProfile = TRUE
  /\ \E n \in PriorMoves :
       /\ profile = [ZeroProfile EXCEPT !.moveCount = n, !.avgThinkTimeMs = 1500]
       /\ moves = [m \in {[gameId |-> "g0", ply |-> 1, isBot |-> FALSE,
                           thinkTimeMs |-> 1500, quality |-> "ok"]} |-> n]
  /\ games = {"g0"}
  /\ events = [t \in EventTypes |-> 0]
  /\ sessions = {}
  /\ reqs = [i \in ReqIds |-> IdleReq]
  /\ decisions = <<>>
  /\ ClientInit
  /\ thinkLog = <<>>
  /\ NoCall

\* One game with its nudges: the player moves when the continuation of the
\* move before has run, no move ends the game, time passes.
NextNudge ==
  \/ ClientGameStarted(GameOf(uid), 0)
  \/ \E thinkTimeMs \in NudgeThinkTimes, u \in {0, RandomSteps - 1} :
       saving = <<>> /\ ClientApplyMove(thinkTimeMs, FALSE, FALSE, FALSE, 0, u)
  \/ ClientQueueBot(1, MinBotThinkMs)
  \/ ClientBotTimer(FALSE)
  \/ RefreshProfile(uid, FALSE)
  \/ \E nudgeTakeASecond \in BOOLEAN : InterventionsArrived(nudgeTakeASecond)
  \/ NudgeMaxTimer
  \/ NudgeHideTimer
  \/ \E t \in Timers \cup {now + d : d \in TimeSteps} : t <= SessionEnd /\ Tick(t)

SpecNudge == InitSession /\ [][NextNudge]_vars

\* Games one after another: moves that may end the game, made when the
\* continuation of this uid's move before has run, MaxClientMoves moves of
\* all games together before the last move of the player; new games while
\* calls are in flight, every call answered; time passes from one due timer
\* to the next.
NextGames ==
  \/ ClientGameStarted(GameOf(uid), 0)
  \/ \E over \in BOOLEAN :
       /\ \A k \in 1..Len(saving) : saving[k].uid # uid
       /\ Len(sent) + Len(pending) < MaxClientMoves
       /\ ClientApplyMove(900, FALSE, FALSE, over, 0, 0)
  \/ \E k \in 1..MaxClientMoves : ClientQueueBot(k, MinBotThinkMs)
  \/ ClientBotTimer(FALSE)
  \/ \E forUid \in Uids : RefreshProfile(forUid, FALSE)
  \/ ResetGame
  \/ NudgeMaxTimer
  \/ \E t \in Timers : Tick(t)

SpecGames == InitSession /\ [][NextGames]_vars

\* C21: when the player's move ended the game, the continuation of that
\* move makes no opponent move: the board, the submissions, the opponent's
\* timer and the position it is to reply to stay as they are, and the engine
\* is not set thinking.
C21_NoReplyToFinishedGame ==
  [][\A k \in 1..Len(saving) :
       (ContinuationStep(k) /\ saving[k].over) =>
         /\ chess' = chess
         /\ sent' = sent
         /\ botTimer' = botTimer
         /\ afterPlayer' = afterPlayer
         /\ botThinking' = botThinking]_vars

\* The player's second move ended the game, its continuation has run, and
\* the engine is idle without a timer.
C21_Witness ==
  /\ reportLocked
  /\ chess.pos = 3
  /\ saving = <<>>
  /\ ~botThinking
  /\ botTimer = NoTimer

\* C22: any two nudges of a session are shown at least NUDGE_COOLDOWN_MS
\* apart, whatever moves were made in between.
C22_CooldownBetweenNudges ==
  \A a, b \in 1..Len(shownLog) :
    a < b => shownLog[b] - shownLog[a] >= NUDGE_COOLDOWN_MS

\* Two nudges have been shown, and the second one is up.
C22_Witness ==
  /\ Len(shownLog) = 2
  /\ nudge.visible
  /\ nudge.shownAt = shownLog[2]

\* A nudge becomes visible.
NudgeShownStep == shownLog' # shownLog

\* C23: a nudge becomes visible only when the store has aggregated at least
\* six moves of the uid that is playing, the move just made included.
C23_NoNudgeWhileWarmingUp ==
  [][NudgeShownStep => MoveCountOf(uid)' >= 6]_vars

\* C24: a visible nudge was shown at most NUDGE_MAX_VISIBLE_MS ago: it is
\* hidden 10 s after shownAt at the latest, soft hide armed or not.
C24_HiddenWithinMaxVisible ==
  nudge.visible => now - nudge.shownAt <= NUDGE_MAX_VISIBLE_MS

(* ---- the soft hide of a nudge ---- *)

\* How far the instants are apart: on both sides of NUDGE_MIN_VISIBLE_MS.
SoftHideSteps == {NUDGE_MIN_VISIBLE_MS - 1, NUDGE_MIN_VISIBLE_MS}

\* The nudge of the first move is followed until after its hard hide.
SoftHideEnd == LoadedAt + NUDGE_MAX_VISIBLE_MS + 2 * NUDGE_AFTER_MOVE_GRACE_MS

\* One game of fast moves, each of which shows a nudge if it may; the player
\* is at most one move ahead of the continuations; time passes.
NextSoftHide ==
  \/ ClientGameStarted(GameOf(uid), 0)
  \/ Len(saving) <= 1 /\ ClientApplyMove(900, FALSE, FALSE, FALSE, 0, 0)
  \/ \E k \in 1..MaxClientMoves : ClientQueueBot(k, MinBotThinkMs)
  \/ ClientBotTimer(FALSE)
  \/ RefreshProfile(uid, FALSE)
  \/ NudgeMaxTimer
  \/ NudgeHideTimer
  \/ \E t \in Timers \cup {now + d : d \in SoftHideSteps} : t <= SoftHideEnd /\ Tick(t)

SpecSoftHide == InitSession /\ [][NextSoftHide]_vars

\* The player commits a move.
PlayerMoveStep == Len(saving') = Len(saving) + 1

\* C25 (as claimed): a soft hide armed by a move hides the nudge 900 ms
\* after that move: a later move does not put it off.
C25_HidesAfterArmingMove ==
  [][(PlayerMoveStep /\ nudgeHideTimer # NoTimer) =>
       nudgeHideTimer' = nudgeHideTimer]_vars

\* C25 (amended): a move committed while a nudge is visible arms the soft
\* hide exactly when the nudge has been visible for NUDGE_MIN_VISIBLE_MS, due
\* NUDGE_AFTER_MOVE_GRACE_MS after this move (a soft hide armed before is
\* dropped for it); an earlier move leaves the nudge and its timers alone;
\* nothing but a move arms a soft hide, so an armed one is due no sooner
\* than 5400 ms after shownAt; and the timer hides the nudge when it is due.
C25_SoftHide ==
  [][/\ (PlayerMoveStep /\ nudge.visible /\ now - nudge.shownAt >= NUDGE_MIN_VISIBLE_MS) =>
          /\ nudgeHideTimer' = now + NUDGE_AFTER_MOVE_GRACE_MS
          /\ nudge' = nudge
     /\ (PlayerMoveStep /\ nudge.visible /\ now - nudge.shownAt < NUDGE_MIN_VISIBLE_MS) =>
          /\ nudgeHideTimer' = nudgeHideTimer
          /\ nudgeMaxTimer' = nudgeMaxTimer
          /\ nudge' = nudge
     /\ (~PlayerMoveStep /\ nudgeHideTimer' # nudgeHideTimer) =>
          /\ nudgeHideTimer' = NoTimer
          /\ ~nudge'.visible
     /\ nudgeHideTimer' # NoTimer =>
          /\ nudge'.visible
          /\ nudgeHideTimer' - nudge'.shownAt >=
               NUDGE_MIN_VISIBLE_MS + NUDGE_AFTER_MOVE_GRACE_MS
     /\ (nudgeHideTimer # NoTimer /\ now' > now) => now' <= nudgeHideTimer]_vars

\* A soft hide has hidden the nudge of the first move: the nudge shown at
\* load time is gone before its hard hide was due.
C25_Witness ==
  /\ Len(shownLog) = 1
  /\ ~nudge.visible
  /\ nudgeMaxTimer = NoTimer
  /\ nudgeHideTimer = NoTimer
  /\ now < shownLog[1] + NUDGE_MAX_VISIBLE_MS
  /\ now >= shownLog[1] + NUDGE_MIN_VISIBLE_MS + NUDGE_AFTER_MOVE_GRACE_MS

\* A new game is started.
ResetStep == uid' # uid

BotMoveStep ==
  /\ botTimer # NoTimer
  /\ botTimer' = NoTimer
  /\ uid' = uid

\* C27: the opponent never moves on a position of a game that has been
\* replaced: the board it replies to belongs to the uid that is playing, so
\* no move computed from an old game is put on the board or submitted.
C27_NoStaleBotMove ==
  [][BotMoveStep => afterPlayer.uid = uid]_vars

(* ---- rejected submissions ---- *)

\* Request i is answered 400 to a move.
RejectStep(i) ==
  /\ reqs[i].pc = "idle"
  /\ reqs'[i].pc = "done"
  /\ reqs'[i].kind = "move"
  /\ reqs'[i].status = 400

\* C28: a submission whose move is illegal gets no further than the
\* validation: the step that answers it with the error stores no Move row
\* and leaves the profile as it is, the answered request does nothing more,
\* and every request that is past the validation carries a legal move.
C28_IllegalMoveNotAggregated ==
  [][\A i \in ReqIds :
       /\ RejectStep(i) => (moves' = moves /\ profile' = profile)
       /\ reqs[i].pc = "done" => reqs'[i] = reqs[i]
       /\ (reqs'[i].kind = "move" /\ reqs'[i].pc # "done") => reqs'[i].legal]_vars

\* An illegal move was rejected after a move of the player had been
\* aggregated.
C28_Witness ==
  /\ profile.moveCount = 1
  /\ \E i \in ReqIds :
       reqs[i].pc = "done" /\ reqs[i].kind = "move" /\ reqs[i].status = 400

\* Request i, a legal move of the player, gets its first answer from the
\* store.
PlayerMoveBeginStep(i) ==
  /\ reqs[i].pc = "idle"
  /\ reqs'[i].kind = "move"
  /\ reqs'[i].status # 400
  /\ ~(reqs'[i].pc = "create" /\ reqs'[i].isBot)

\* C29: a legal move of the player for a user without a profile, a uid the
\* store does not know included, does not fail: the profile exists
\* afterwards and the request goes on to store and aggregate the move.
C29_MissingProfileCreated ==
  [][\A i \in ReqIds :
       (PlayerMoveBeginStep(i) /\ ~hasProfile) =>
         /\ hasProfile'
         /\ reqs'[i].pc = "create"]_vars

\* C30: a nudge becomes visible only while nudgeEnabled is true, and then
\* only when the scheduler's own tests pass as well: six moves in the
\* profile it has, no nudge up, the cooldown over, and a draw of
\* Math.random() that is not above NUDGE_SHOW_PROB.
C30_FlagGatesScheduler ==
  [][NudgeShownStep =>
       /\ nudgeEnabled
       /\ Field(profileStats, "moves", 0) >= 6
       /\ ~nudge.visible
       /\ now - lastNudgeAt >= NUDGE_COOLDOWN_MS
       /\ random' * 100 <= NUDGE_SHOW_PROB * RandomSteps]_vars

\* The interventions of the uid came with nudgeTakeASecond true, and a nudge
\* is up.
C30_Witness ==
  /\ ~interventionsDue
  /\ nudgeEnabled
  /\ nudge.visible
  /\ random = 0

\* The interventions came with nudgeTakeASecond false, and a move that would
\* have drawn (six moves in the profile, no nudge up) was made without a
\* nudge.
C30_WitnessDisabled ==
  /\ ~interventionsDue
  /\ ~nudgeEnabled
  /\ Field(profileStats, "moves", 0) >= 6
  /\ chess.pos = 1
  /\ shownLog = <<>>

(* ---- the hover window and the reason of a nudge (Home.jsx) ---- *)

\* Think times on both sides of the 900 ms and the 4200 ms of maybeShowNudge.
HoverThinkTimes == {900, 901, 4199, 4200}

\* How long the player waits at a time: the length of the hover window, and
\* 1 ms more.
HoverSteps == {10000, 10001}

\* Time enough for two hover windows.
HoverEnd == LoadedAt + 2 * 10001

\* A think time that gives no reason for a nudge.
HoverThinkTimeMs == 901

\* It is the player's turn: no move is being saved, no reply is pending.
PlayersTurn == saving = <<>> /\ ~botThinking

\* One game in which squares are hovered at several instants: the player
\* hovers and moves in turn, the game start is not answered yet, time passes.
NextHover ==
  \/ PlayersTurn /\ MouseOverSquare
  \/ PlayersTurn /\ HoverApplyMove(HoverThinkTimeMs, 0)
  \/ ClientQueueBot(1, MinBotThinkMs)
  \/ ClientBotTimer(FALSE)
  \/ \E t \in Timers \cup {now + d : d \in HoverSteps} : t <= HoverEnd /\ Tick(t)

SpecHover == InitSession /\ [][NextHover]_vars

\* One game in which squares are hovered, with moves of every pace: the
\* profile is answered, every draw of Math.random() lets the nudge pass,
\* time passes from one due timer to the next.
NextReason ==
  \/ RefreshProfile(uid, FALSE)
  \/ PlayersTurn /\ MouseOverSquare
  \/ \E thinkTimeMs \in HoverThinkTimes :
       PlayersTurn /\ HoverApplyMove(thinkTimeMs, 0)
  \/ ClientQueueBot(1, MinBotThinkMs)
  \/ ClientBotTimer(FALSE)
  \/ NudgeMaxTimer
  \/ \E t \in Timers : Tick(t)

SpecReason == InitSession /\ [][NextReason]_vars

\* nudgeReason with the think time before the hovers.
nudgeReasonExpected(thinkTimeMs, hoverBurst) ==
  CASE hoverBurst >= 8 -> "hoverBurst"
    [] hoverBurst < 8 /\ thinkTimeMs >= 4200 -> "tooSlow"
    [] hoverBurst < 8 /\ thinkTimeMs < 4200 /\ thinkTimeMs <= 900 -> "tooFast"
    [] OTHER -> NoVal

\* C33: the reason of a nudge shown by a move is hoverBurst when the move
\* found at least 8 hovers counted, else tooSlow for a think time of at
\* least 4200 ms, else tooFast for one of at most 900 ms; a move with none
\* of the three shows no nudge: the nudge state and lastNudgeAt stay as they
\* are.
C33_ReasonIsFirstMatch ==
  [][PlayerMoveStep =>
       LET expected == nudgeReasonExpected(
                         saving'[Len(saving')].thinkTimeMs, hoverBurstRef.count)
       IN  /\ NudgeShownStep => nudge'.reason = expected
           /\ expected = NoVal =>
                /\ ~NudgeShownStep
                /\ nudge' = nudge
                /\ lastNudgeAt' = lastNudgeAt]_vars

\* A slow move after 8 hovers has just shown a nudge, and its reason is the
\* hovers.
C33_Witness ==
  /\ nudge.visible
  /\ nudge.shownAt = now
  /\ nudge.reason = "hoverBurst"
  /\ saving # <<>>
  /\ saving[Len(saving)].thinkTimeMs >= 4200

\* The hovers that hoverBurstRef counts: the last count ones.
CountedHovers ==
  {k \in 1..Len(hoverLog) : k > Len(hoverLog) - hoverBurstRef.count}

\* C35: the count of the hover window, whenever it is read, counts hovers
\* made since the last move of the player only, all of them within 10 s of
\* each other and none before the start of the window.
C35_CountWithinWindowSinceMove ==
  /\ hoverBurstRef.count <= Len(hoverLog)
  /\ \A j, k \in CountedHovers :
       /\ hoverLog[k] - hoverLog[j] <= 10000
       /\ hoverLog[k] >= hoverBurstRef.windowStart

\* The player has hovered before and after a gap of more than 10 s: the
\* count left out the hover before the gap.
C35_Witness ==
  /\ Len(hoverLog) >= 2
  /\ hoverLog[Len(hoverLog)] - hoverLog[1] > 10000
  /\ hoverBurstRef.count = 1

(* ---- think times beyond the clamp (routes.js 213-223, 248-253) ---- *)

\* Submitted think times on both sides of the two ends of the clamp.
ClampThinkTimes == {-1, 0, 600000, 600001}

NextClamp ==
  \E gameId \in GameIds, thinkTimeMs \in ClampThinkTimes :
    SeqPlayerMove(gameId, thinkTimeMs, FALSE)

SpecClamp == InitSeq /\ [][NextClamp]_vars

\* C40: the think time a move adds to the mean is the one stored on its Move
\* row, the submitted one clamped to [0, 600000], so the mean of the profile
\* is never below 0 and never above 600000.
C40_AvgWithinClamp ==
  /\ profile.avgThinkTimeMs >= 0
  /\ profile.avgThinkTimeMs <= 600000
  /\ \A m \in BagToSet(moves) :
       Len(thinkLog) = 1 => profile.avgThinkTimeMs = m.thinkTimeMs

(* ---- the label of the report (Home.jsx 1103-1177, 1455-1496) ---- *)

\* getBehaviorInsight of Home.jsx (1103-1177), which openReport applies to
\* profileStats: the stats as in Stats, the rules in the order of this file.
getBehaviorInsightOfReport(stats) ==
  LET moveCount == Field(stats, "moves", Field(stats, "moveCount", 0))
      avgThinkTime == Field(stats, "avgThinkTime", 0)
      blunderRate == Field(stats, "blunderRate", 0)
      hoverCount == Field(stats, "hoverCount", 0)
  IN  [label |->
        IF moveCount < 6 THEN "Warming up"
        ELSE IF avgThinkTime <= 22 /\ blunderRate >= 25 THEN "Impulsive"
        ELSE IF avgThinkTime >= 60 /\ blunderRate <= 20 THEN "Reflective"
        ELSE IF avgThinkTime >= 40 /\ hoverCount >= 4 * moveCount THEN "Hesitant"
        ELSE IF hoverCount >= 5 * moveCount THEN "Explorer"
        ELSE IF blunderRate >= 35 THEN "Unstable"
        ELSE "Balanced"]

\* openReport (Home.jsx 1470): the insight of the report.
CallGetBehaviorInsightOfReport ==
  /\ callResult = NoResult
  /\ callResult' = getBehaviorInsightOfReport(callArgs)
  /\ UNCHANGED callArgs
  /\ UNCHANGED <<backendVars, clientVars, thinkLog>>

NextReport == CallGetBehaviorInsightOfReport

SpecReport == InitInsight /\ [][NextReport]_vars

\* C36: the label the client computes for the report is the label the
\* backend classifier gives for the same stats.
C36_ReportLabelIsBackendLabel ==
  callResult # NoResult => callResult.label = getBehaviorInsight(callArgs).label

(* ---- the text of a nudge (Home.jsx 996-1022) ---- *)

\* Segments as the client may hold them: the labels of the classifier and of
\* computeSegment, as stored and as the client normalizes them, with blanks
\* around them, and none.
RawSegments ==
  {"Hesitant", "HESITANT", " hesitant ", "Impulsive", "impulsive", "IMPULSIVE",
   "Reflective", "REFLECTIVE", "careful", "CAREFUL", "Unstable", "UNSTABLE",
   "Explorer", "Balanced", "Warming up", "WARMING UP", "learner", "unknown",
   "UNKNOWN", "", "  "}

\* String.prototype.trim on these strings.
Trim(str) ==
  CASE str = " hesitant " -> "hesitant"
    [] str = "  " -> ""
    [] OTHER -> str

\* String.prototype.toUpperCase on these strings.
ToUpperCase(str) ==
  CASE str \in {"Hesitant", "hesitant"} -> "HESITANT"
    [] str \in {"Impulsive", "impulsive"} -> "IMPULSIVE"
    [] str = "Reflective" -> "REFLECTIVE"
    [] str = "careful" -> "CAREFUL"
    [] str = "Unstable" -> "UNSTABLE"
    [] str = "Explorer" -> "EXPLORER"
    [] str = "Balanced" -> "BALANCED"
    [] str = "Warming up" -> "WARMING UP"
    [] str = "learner" -> "LEARNER"
    [] str = "unknown" -> "UNKNOWN"
    [] OTHER -> str

\* normalizeSegment (Home.jsx 996-1000).
normalizeSegment(seg) ==
  LET str == Trim(seg)
  IN  IF str = "" THEN "UNKNOWN" ELSE ToUpperCase(str)

\* pickNudgeMessage that looks at the signals before the segment.
pickNudgeMessageSignalsFirst(args) ==
  LET seg == normalizeSegment(args.segment)
  IN  IF args.hoverBurst >= 8
        THEN "Try trusting your first idea -- too much exploring can slow you down."
      ELSE IF args.thinkTimeMs >= 4200
        THEN "Take a second -- then commit. Overthinking can cost you momentum."
      ELSE IF args.thinkTimeMs <= 900
        THEN "Quick moves are risky -- a brief pause can boost accuracy."
      ELSE IF seg = "HESITANT"
        THEN "Players like you often perform better when they trust their first instinct."
      ELSE IF seg = "IMPULSIVE"
        THEN "Players with your style benefit from pausing before committing."
      ELSE IF seg = "REFLECTIVE" \/ seg = "CAREFUL"
        THEN "Your calm pace is working -- keep scanning checks/captures."
      ELSE IF seg = "UNSTABLE"
        THEN "Consistency tends to create stronger positions over time."
      ELSE "Take a second. Then commit."

\* pickNudgeMessage (Home.jsx 1002-1022); the dash of the texts is written --.
pickNudgeMessage(args) ==
  LET seg == normalizeSegment(args.segment)
  IN  IF seg = "HESITANT"
        THEN "Players like you often perform better when they trust their first instinct."
      ELSE IF seg = "IMPULSIVE"
        THEN "Players with your style benefit from pausing before committing."
      ELSE IF seg = "REFLECTIVE" \/ seg = "CAREFUL"
        THEN "Your calm pace is working -- keep scanning checks/captures."
      ELSE IF seg = "UNSTABLE"
        THEN "Consistency tends to create stronger positions over time."
      ELSE IF args.hoverBurst >= 8
        THEN "Try trusting your first idea -- too much exploring can slow you down."
      ELSE IF args.thinkTimeMs >= 4200
        THEN "Take a second -- then commit. Overthinking can cost you momentum."
      ELSE IF args.thinkTimeMs <= 900
        THEN "Quick moves are risky -- a brief pause can boost accuracy."
      ELSE "Take a second. Then commit."

\* Hover counts on both sides of the 8 of pickNudgeMessage.
MessageHoverBursts == {0, 7, 8}

InitMessage ==
  /\ BackendInit
  /\ ClientInit
  /\ thinkLog = <<>>
  /\ callArgs \in [segment : RawSegments, thinkTimeMs : HoverThinkTimes,
                   hoverBurst : MessageHoverBursts]
  /\ callResult = NoResult

CallPickNudgeMessage ==
  /\ callResult = NoResult
  /\ callResult' = [msg |-> pickNudgeMessage(callArgs)]
  /\ UNCHANGED callArgs
  /\ UNCHANGED <<backendVars, clientVars, thinkLog>>

NextMessage == CallPickNudgeMessage

SpecMessage == InitMessage /\ [][NextMessage]_vars

\* The segments with a text of their own, in any spelling, and that text.
SegmentTexts ==
  {[segments |-> {"Hesitant", "HESITANT", " hesitant "},
    msg |-> "Players like you often perform better when they trust their first instinct."],
   [segments |-> {"Impulsive", "impulsive", "IMPULSIVE"},
    msg |-> "Players with your style benefit from pausing before committing."],
   [segments |-> {"Reflective", "REFLECTIVE", "careful", "CAREFUL"},
    msg |-> "Your calm pace is working -- keep scanning checks/captures."],
   [segments |-> {"Unstable", "UNSTABLE"},
    msg |-> "Consistency tends to create stronger positions over time."]}

\* The text for the signals alone.
SignalText(thinkTimeMs, hoverBurst) ==
  CASE hoverBurst >= 8 ->
         "Try trusting your first idea -- too much exploring can slow you down."
    [] hoverBurst < 8 /\ thinkTimeMs >= 4200 ->
         "Take a second -- then commit. Overthinking can cost you momentum."
    [] hoverBurst < 8 /\ thinkTimeMs < 4200 /\ thinkTimeMs <= 900 ->
         "Quick moves are risky -- a brief pause can boost accuracy."
    [] OTHER -> "Take a second. Then commit."

\* C34: the text pickNudgeMessage returns is the text of the segment for
\* Hesitant, Impulsive, Reflective or Careful, and Unstable, whatever the
\* think time and the hover count; for every other segment it is the text
\* of the first signal among 8 hovers, 4200 ms and more, 900 ms and less,
\* and the generic text without one.
C34_SegmentTextFirst ==
  callResult # NoResult =>
    /\ \A t \in SegmentTexts :
         callArgs.segment \in t.segments => callResult.msg = t.msg
    /\ (\A t \in SegmentTexts : callArgs.segment \notin t.segments) =>
         callResult.msg = SignalText(callArgs.thinkTimeMs, callArgs.hoverBurst)

\* The text of the segment was returned for a fast move after 8 hovers.
C34_Witness ==
  /\ callResult # NoResult
  /\ callArgs.segment = "IMPULSIVE"
  /\ callArgs.hoverBurst >= 8
  /\ callArgs.thinkTimeMs <= 900
  /\ callResult.msg = "Players with your style benefit from pausing before committing."

(* ---- intervention flags (routes.js 496-557) ---- *)

\* GET /interventions/:uid, the defaults (routes.js 531-534).
defaults == [nudgeTakeASecond |-> TRUE, confirmMoves |-> FALSE]

\* { ...a, ...b }: the keys of both, b's value where both have the key.
Spread(a, b) ==
  [k \in DOMAIN a \cup DOMAIN b |-> IF k \in DOMAIN b THEN b[k] ELSE a[k]]

\* What an admin posts as body.interventions: nothing (taken as {}), or one
\* flag away from its default.
InterventionBodies ==
  {NoFlags, [nudgeTakeASecond |-> FALSE], [confirmMoves |-> TRUE]}

\* adminDecision.findFirst ordered by createdAt ascending.
findFirstOldest ==
  {d \in {decisions[k] : k \in DOMAIN decisions} :
     \A k \in DOMAIN decisions : decisions[k].createdAt >= d.createdAt}

\* adminDecision.findFirst({ orderBy: { createdAt: "desc" } }) (routes.js
\* 541-544): a row with the greatest createdAt; among rows of the same
\* millisecond the store is free to return any.
findFirst ==
  {d \in {decisions[k] : k \in DOMAIN decisions} :
     \A k \in DOMAIN decisions : decisions[k].createdAt <= d.createdAt}

\* POST /admin/users/:uid/interventions up to adminDecision.create (routes.js
\* 496-502, adminAuth.js): 401 without the admin password, 404 for an
\* unknown uid.
DecisionBegin(i, authorized, interventions) ==
  /\ CanStart(i)
  /\ LET r == [reqs[i] EXCEPT !.kind = "decide", !.interventions = interventions]
     IN  reqs' = [reqs EXCEPT ![i] =
           IF ~authorized THEN Respond(r, 401, NoVal, FALSE)
           ELSE IF ~hasUser THEN Respond(r, 404, NoVal, FALSE)
           ELSE [r EXCEPT !.pc = "createDecision"]]
  /\ UNCHANGED <<moveKeyUnique, hasUser, hasProfile, profile, games, moves,
                 events, sessions, decisions, thinkLog>>
  /\ UNCHANGED clientVars
  /\ UNCHANGED callVars

\* adminDecision.create and the answer (routes.js 503-510): createdAt is the
\* store's clock, TIMESTAMP(3): the millisecond of the newest row (sameMs) or
\* a later one.
DecisionCreate(i, sameMs) ==
  /\ reqs[i].kind = "decide" /\ reqs[i].pc = "createDecision"
  /\ LET createdAt ==
           IF decisions = <<>> THEN 0
           ELSE decisions[Len(decisions)].createdAt + (IF sameMs THEN 0 ELSE 1)
     IN  decisions' = Append(decisions,
           [createdAt |-> createdAt, interventions |-> reqs[i].interventions])
  /\ reqs' = [reqs EXCEPT ![i] = Respond(reqs[i], 200, NoVal, FALSE)]
  /\ UNCHANGED <<moveKeyUnique, hasUser, hasProfile, profile, games, moves,
                 events, sessions, thinkLog>>
  /\ UNCHANGED clientVars
  /\ UNCHANGED callVars

\* GET /interventions/:uid, user.findUnique (routes.js 526-539): an unknown
\* uid is answered with the defaults.
InterventionsBegin(i) ==
  /\ CanStart(i)
  /\ LET r == [reqs[i] EXCEPT !.kind = "interventions"]
     IN  reqs' = [reqs EXCEPT ![i] =
           IF ~hasUser
             THEN [Respond(r, 200, NoVal, FALSE) EXCEPT !.interventions = defaults]
             ELSE [r EXCEPT !.pc = "findLast"]]
  /\ UNCHANGED <<moveKeyUnique, hasUser, hasProfile, profile, games, moves,
                 events, sessions, decisions, thinkLog>>
  /\ UNCHANGED clientVars
  /\ UNCHANGED callVars

\* GET /interventions/:uid, adminDecision.findFirst, the merge and the
\* answer (routes.js 541-552).
InterventionsFindLast(i) ==
  /\ reqs[i].kind = "interventions" /\ reqs[i].pc = "findLast"
  /\ \E last \in IF decisions = <<>> THEN {Null} ELSE findFirst :
       LET merged == Spread(defaults,
                       IF last = Null THEN NoFlags ELSE last.interventions)
       IN  reqs' = [reqs EXCEPT ![i] =
             [Respond(reqs[i], 200, NoVal, FALSE) EXCEPT !.interventions = merged]]
  /\ UNCHANGED <<moveKeyUnique, hasUser, hasProfile, profile, games, moves,
                 events, sessions, decisions, thinkLog>>
  /\ UNCHANGED clientVars
  /\ UNCHANGED callVars

\* The server starts on a database without the user, or with the user and
\* the game of an earlier POST /game/start.
InitFlags ==
  /\ moveKeyUnique = FALSE
  /\ hasUser \in BOOLEAN
  /\ hasProfile = hasUser
  /\ profile = ZeroProfile
  /\ games = IF hasUser THEN GameIds ELSE {}
  /\ moves = EmptyBag
  /\ events = [t \in EventTypes |-> 0]
  /\ sessions = {}
  /\ reqs = [i \in ReqIds |-> IdleReq]
  /\ decisions = <<>>
  /\ ClientInit
  /\ thinkLog = <<>>
  /\ NoCall

NextFlags ==
  \/ \E i \in ReqIds, gameId \in GameIds : GameStart(i, gameId)
  \/ \E i \in ReqIds, authorized \in BOOLEAN, interventions \in InterventionBodies :
       DecisionBegin(i, authorized, interventions)
  \/ \E i \in ReqIds, sameMs \in BOOLEAN : DecisionCreate(i, sameMs)
  \/ \E i \in ReqIds : InterventionsBegin(i)
  \/ \E i \in ReqIds : InterventionsFindLast(i)

SpecFlags == InitFlags /\ [][NextFlags]_vars

\* GET /interventions/:uid of request i is answered in this step.
InterventionsAnswerStep(i) ==
  /\ reqs[i].pc # "done"
  /\ reqs'[i].pc = "done"
  /\ reqs'[i].kind = "interventions"

\* C31: GET /interventions/:uid always answers 200 with a flag set that has
\* both nudgeTakeASecond and confirmMoves: the defaults (true, false) for an
\* unknown uid or a user without admin decision, and otherwise the defaults
\* with every key of the newest admin decision (none has a later createdAt)
\* put over them; a decision older than another changes nothing.
C31_DefaultsUnderNewestDecision ==
  [][\A i \in ReqIds : InterventionsAnswerStep(i) =>
       /\ reqs'[i].status = 200
       /\ DOMAIN defaults \subseteq DOMAIN reqs'[i].interventions
       /\ IF ~hasUser \/ decisions = <<>>
            THEN reqs'[i].interventions = defaults
            ELSE \E k \in DOMAIN decisions :
                   /\ \A j \in DOMAIN decisions :
                        decisions[j].createdAt <= decisions[k].createdAt
                   /\ \A key \in DOMAIN reqs'[i].interventions :
                        reqs'[i].interventions[key] =
                          IF key \in DOMAIN decisions[k].interventions
                            THEN decisions[k].interventions[key]
                            ELSE defaults[key]]_vars

\* An answer given after two decisions of different milliseconds, the older
\* one switching the nudges off, the newer one switching the confirmations
\* on: nudgeTakeASecond is back at its default.
C31_Witness ==
  /\ Len(decisions) = 2
  /\ decisions[1].createdAt < decisions[2].createdAt
  /\ decisions[1].interventions = [nudgeTakeASecond |-> FALSE]
  /\ decisions[2].interventions = [confirmMoves |-> TRUE]
  /\ \E i \in ReqIds :
       /\ reqs[i].pc = "done" /\ reqs[i].kind = "interventions"
       /\ reqs[i].interventions = [nudgeTakeASecond |-> TRUE, confirmMoves |-> TRUE]

(* ---- turns: the player, the engine and a new game (Home.jsx) ---- *)

\* One unhurried move at a time of the session's uid, every save answered
\* at its own time, the callback of the engine waiting for its own save,
\* and a new game at any moment.
NextTurns ==
  \/ ClientGameStarted(GameOf(uid), 0)
  \/ /\ Len(sent) + Len(pending) < MaxClientMoves
     /\ saving = <<>>
     /\ ClientApplyMove(900, FALSE, FALSE, FALSE, 0, 0)
  \/ \E k \in 1..MaxClientMoves : ClientQueueBot(k, MinBotThinkMs)
  \/ \E fails \in BOOLEAN : BotTimerFires(fails)
  \/ \E t \in strayTimers, fails \in BOOLEAN : StrayTimerFires(t, fails)
  \/ \E k \in 1..MaxClientMoves : BotCallbackEnds(k)
  \/ ResetGame
  \/ \E t \in Timers : Tick(t)

SpecTurns == InitSession /\ [][NextTurns]_vars

\* C37: a move of the player is accepted only when it is the player's turn:
\* no move has been committed on the board since the engine's last reply (or
\* since the game began), so the engine is to move after every player move
\* before the player moves again.
C37_PlayerMovesOnOwnTurn ==
  [][PlayerMoveStep => chess.pos % 2 = 0]_vars

\* C38: at most one reply of the engine is pending: at most one bot timer
\* is armed, the one botTimerRef holds or one it no longer holds.
C38_OneReplyPending ==
  Cardinality(HeldTimer \cup strayTimers) <= 1

\* The same session when timers fire, time goes on to the next timer, and
\* the save of the engine's reply is answered or fails.
SpecTurnsFair ==
  /\ SpecTurns
  /\ WF_vars(\E t \in Timers : Tick(t))
  /\ WF_vars(\E fails \in BOOLEAN : BotTimerFires(fails))
  /\ WF_vars(\E t \in strayTimers, fails \in BOOLEAN : StrayTimerFires(t, fails))
  /\ WF_vars(\E k \in 1..MaxClientMoves : BotCallbackEnds(k))

\* C32: whenever the engine is thinking, it later is not: the flag that
\* locks the board is cleared again, whether the reply was stored, its save
\* failed, or a new game cancelled it.
C32_ThinkingEnds ==
  botThinking ~> ~botThinking

\* The engine has replied to the first move of the new game, the save of
\* the reply failed, and the callback has come to its end.
C32_Witness ==
  /\ ~botThinking
  /\ botRunning = <<>>
  /\ botTimer = NoTimer
  /\ uid = 1
  /\ chess.pos = 2
  /\ \E a \in 1..Len(sent) :
       sent[a].isBot /\ sent[a].uid = 1 /\ sent[a].answer = "error"

(* ---- the queue of moves without a gameId (Home.jsx 1352-1401) ---- *)

\* The player moves while the game start of the mount is not answered yet;
\* when the id comes the queue is flushed, and the e-th submitMove of the
\* flush may fail, as may the save of a move made later.
NextPending ==
  \/ \E gid \in GameIds, e \in 0..MaxClientMoves : ClientGameStarted(gid, e)
  \/ \E fails \in BOOLEAN :
       /\ saving = <<>>
       /\ ClientApplyMove(900, FALSE, fails, FALSE, 0, 0)
  \/ \E k \in 1..MaxClientMoves : ClientQueueBot(k, MinBotThinkMs)
  \/ ClientBotTimer(FALSE)
  \/ \E t \in Timers : Tick(t)

SpecPending == InitSession /\ [][NextPending]_vars

\* C39: when the game id comes and the queue is flushed, every queued move
\* is submitted with that id, in the order of the queue: none is dropped.
C39_EveryQueuedMoveSubmitted ==
  [][(clientGame = NoVal /\ clientGame' # NoVal) =>
       /\ Len(sent') = Len(sent) + Len(pending)
       /\ \A n \in 1..Len(pending) :
            /\ sent'[Len(sent) + n].pos = pending[n].pos
            /\ sent'[Len(sent) + n].gameId = clientGame'
            /\ ~sent'[Len(sent) + n].isBot]_vars

TypeOK ==
  /\ profile.moveCount \in Nat
  /\ hasProfile => hasUser

====
